---- MODULE Spec2Model ----
(***************************************************************************)
(* A model of the AWS environment collector of securicad-enterprise-sdk    *)
(* (src/securicad/enterprise/aws_import_cli.py and the older single-region *)
(* src/aws_import_cli.py).                                                 *)
(*                                                                         *)
(* The collector is modelled as eight state machines that share one set of *)
(* variables; each specification runs one of them and keeps the variables  *)
(* of the others at their initial value:                                   *)
(*   SpecApi    api_call       the backoff caller                          *)
(*   SpecCache  get_client     the client cache, with concurrent callers   *)
(*   SpecSched  execute_tasks  the task scheduler and its thread pool      *)
(*   SpecImport import_cli     the account / region orchestrator           *)
(*   SpecChunk  fake_paginate  a bulk lookup in chunks of n ids            *)
(*   SpecEnrich the task functions that look up sub-resources per item     *)
(*   SpecPaginate paginate_cached  a listing fetched page by page          *)
(*   SpecInspect  inspector_list_findings  the findings of the latest run  *)
(* SpecCacheRaise is get_client with a constructor that can raise, and     *)
(* SpecBuckets the public status step of s3api_list_buckets in the two     *)
(* collector files. Three machines model calls of the SDK client:          *)
(*   SpecSimulation  Simulation.get_results                                *)
(*   SpecValidation  Models._wait_for_model_validation                     *)
(*   SpecSave        Client.save_model                                     *)
(***************************************************************************)
EXTENDS Integers, Sequences, FiniteSets, TLC

VARIABLES
    \* ---- api_call ----
    apiPattern,   \* what the wrapped call does on its 1st, 2nd, ... invocation
    apiPc,        \* position inside api_call
    retry,        \* the loop variable of "for retry in range(MAX_RETRIES)"
    apiLog,       \* the calls and sleeps made so far, in order
    apiResult,    \* how api_call ended: a returned value or a raised error
    \* ---- get_client ----
    lock,         \* the holder of the cache lock, 0 when it is free
    cache,        \* the cache dict: service name -> client handle
    ctorCalls,    \* per service name, the invocations of session.client
    gcPc,         \* per caller, its position inside get_client
    gcName,       \* per caller, the name it asked for
    gcLeft,       \* per caller, the get_client calls it still makes
    gcRet,        \* the (caller, name, handle) triples returned so far
    ctorFailed,   \* the invocations of session.client that raised
    \* ---- execute_tasks ----
    tasks,        \* the task list: per task its result path and value kind
    threads,      \* the threads argument: a pool size, 0 standing for None
    delay,        \* the delay argument: seconds, 0 for None
    fut,          \* per task, the state of its future
    mPc,          \* the position of the thread that called execute_tasks
    cur,          \* the future taken from as_completed, 0 when none
    cursor,       \* the path of the dict that obj refers to during a merge
    walked,       \* how many names of names[:-1] the merge has walked
    output,       \* the output dictionary, as a map from paths to values
    reached,      \* the tasks whose future.result() was called, in order
    merged,       \* the tasks whose result was assigned into output, in order
    slept,        \* the sleeps of the completion loop, in seconds
    atRaise,      \* the futures' states when an error left the loop
    schedEnd,     \* how execute_tasks ended: the tree returned or the error
    \* ---- import_cli ----
    config,       \* config["accounts"]: the account entries, in order
    identity,     \* the provider's answer: access key -> account id
    includeInspector, \* the include_inspector argument
    iPc,          \* position inside import_cli
    acct,         \* the index of the account entry of the current iteration
    accountData,  \* account_data of the current iteration
    validRegions, \* valid_regions of the current iteration
    regIdx,       \* how many of valid_regions the region loop has taken
    outAccounts,  \* output["accounts"]
    sessions,     \* the sessions opened so far
    sessionLog,   \* per session opened, the account and region it is for
    iTrace,       \* the collection steps executed so far, in order
    uses,         \* per collection step, its session, client cache and clients
    logged,       \* the messages given to log_func, in order
    validated,    \* whether output passed jsonschema.validate
    impEnd,       \* how import_cli ended: the document returned or the error
    \* ---- fake_paginate ----
    fpItems,      \* the items argument: the ids to look up
    fpN,          \* the n argument: the chunk size
    fpKnown,      \* the ids the provider has a description for
    fpPc,         \* position inside fake_paginate
    fpTail,       \* tail: the ids not yet requested
    fpCalls,      \* the unpaginated calls made so far: request and response
    fpPages,      \* pages_data
    fpEnd,        \* how fake_paginate ended: the list returned or the error
    \* ---- enrichment tasks ----
    enTask,       \* the task function that runs
    enPc,         \* position inside the task function
    enItems,      \* the listed items (buckets, users, repositories)
    enIdx,        \* the index of the item of the current iteration
    enLook,       \* the index of the sub-resource lookup that is next
    enLog,        \* the sub-resource lookups made so far, with their outcome
    enEnd,        \* how the task ended: its path and items, or the error
    \* ---- paginate_cached ----
    pgPages,      \* the pages the provider has for the request, in order
    pgPc,         \* position inside paginate_cached
    pgIdx,        \* the pages taken from page_iterator so far
    pgData,       \* pages_data
    pgLog,        \* the page fetches made so far, with their outcome
    pgEnd,        \* how paginate_cached ended: the dict returned or the error
    \* ---- inspector_list_findings ----
    insRuns,      \* the assessment runs of the time window, as described
    insPc,        \* position inside inspector_list_findings
    insRunArn,    \* run_arn
    insCalls,     \* the inspector operations called so far, in order
    insEnd,       \* how the task ended: its path and list, or the error
    \* ---- s3api_list_buckets: the public status of the buckets ----
    bkFile,       \* which collector file runs: the package's or the older one
    bkAnswers,    \* per bucket, the answer to get_bucket_policy_status
    bkBuckets,    \* the bucket dicts
    bkIdx,        \* the buckets the loop has handled
    bkPc,         \* position inside the loop over the buckets
    \* ---- Simulation.get_results ----
    simStart,     \* self.progress when get_results is called
    progress,     \* self.progress
    simPc,        \* position inside get_results
    simLog,       \* the requests sent so far, with the progress reported
    \* ---- Models._wait_for_model_validation ----
    mvPc,         \* position inside _wait_for_model_validation
    mvList,       \* the listing received last
    mvPolls,      \* the listings requested so far
    mvEnd,        \* how the call ended: the ModelInfo returned or the error
    \* ---- Client.save_model ----
    svMid,        \* the id of the model of the current save_model call
    svPc,         \* position inside save_model
    svCalls,      \* the save_model calls made so far
    svLog,        \* the requests sent so far, in order
    svLocked      \* the model ids locked on the server

apiVars == <<apiPattern, apiPc, retry, apiLog, apiResult>>

cacheVars == <<lock, cache, ctorCalls, gcPc, gcName, gcLeft, gcRet, ctorFailed>>

schedVars == <<tasks, threads, delay, fut, mPc, cur, cursor, walked, output,
               reached, merged, slept, atRaise, schedEnd>>

impVars == <<config, identity, includeInspector, iPc, acct, accountData, validRegions, regIdx,
             outAccounts, sessions, sessionLog, iTrace, uses, logged, validated,
             impEnd>>

fpVars == <<fpItems, fpN, fpKnown, fpPc, fpTail, fpCalls, fpPages, fpEnd>>

\* The variables of the machines of single collection tasks.
enVars == <<enTask, enPc, enItems, enIdx, enLook, enLog, enEnd>>

pgVars == <<pgPages, pgPc, pgIdx, pgData, pgLog, pgEnd>>

insVars == <<insRuns, insPc, insRunArn, insCalls, insEnd>>

taskVars == <<fpVars, enVars, pgVars, insVars>>

bkVars == <<bkFile, bkAnswers, bkBuckets, bkIdx, bkPc>>

simVars == <<simStart, progress, simPc, simLog>>

mvVars == <<mvPc, mvList, mvPolls, mvEnd>>

svVars == <<svMid, svPc, svCalls, svLog, svLocked>>

\* The variables of the machines of the bucket loop and of the SDK calls.
callVars == <<bkVars, simVars, mvVars, svVars>>

vars == <<apiVars, cacheVars, schedVars, impVars, taskVars, callVars>>

\* What a step of one machine leaves alone: the variables of the others.
apiRest == <<cacheVars, schedVars, impVars, taskVars, callVars>>

cacheRest == <<apiVars, schedVars, impVars, taskVars, callVars>>

schedRest == <<apiVars, cacheVars, impVars, taskVars, callVars>>

impRest == <<apiVars, cacheVars, schedVars, taskVars, callVars>>

fpRest == <<apiVars, cacheVars, schedVars, impVars, enVars, pgVars, insVars, callVars>>

enRest == <<apiVars, cacheVars, schedVars, impVars, fpVars, pgVars, insVars, callVars>>

pgRest == <<apiVars, cacheVars, schedVars, impVars, fpVars, enVars, insVars, callVars>>

insRest == <<apiVars, cacheVars, schedVars, impVars, fpVars, enVars, pgVars, callVars>>

bkRest == <<apiVars, cacheVars, schedVars, impVars, taskVars, simVars, mvVars, svVars>>

simRest == <<apiVars, cacheVars, schedVars, impVars, taskVars, bkVars, mvVars, svVars>>

mvRest == <<apiVars, cacheVars, schedVars, impVars, taskVars, bkVars, simVars, svVars>>

svRest == <<apiVars, cacheVars, schedVars, impVars, taskVars, bkVars, simVars, mvVars>>

-----------------------------------------------------------------------------
(***************************************************************************)
(* api_call: exponential backoff on Throttling                             *)
(***************************************************************************)

MAX_RETRIES == 4

\* What one invocation of the wrapped call can do: return a value, raise
\* ClientError with code Throttling, raise ClientError with another code,
\* raise an exception that is no ClientError.
CallOutcomes == {"ok", "Throttling", "ClientError", "Exception"}

NoResult == [kind |-> "none", val |-> "none"]

CallEvent == [ev |-> "call", secs |-> 0]

SleepEvent(secs) == [ev |-> "sleep", secs |-> secs]

\* A variant that retries every ClientError, whatever its code.
IsThrottlingAnyCode(o) == o \in {"Throttling", "ClientError"}

\* except ClientError as e: if e.response["Error"]["Code"] == "Throttling"
IsThrottling(o) == o = "Throttling"

\* A variant whose first delay is 2 seconds instead of 1.
BackoffDelayShifted(r) == 2 ^ (r + 1)

\* time.sleep(2 ** retry)
BackoffDelay(r) == 2 ^ r

\* The number of invocations of the wrapped call made so far.
ApiCalls == Cardinality({i \in DOMAIN apiLog : apiLog[i].ev = "call"})

InitApiVars ==
    /\ apiPattern = <<>>
    /\ apiPc = "off"
    /\ retry = 0
    /\ apiLog = <<>>
    /\ apiResult = NoResult

\* for retry in range(MAX_RETRIES): the next iteration, or the end of the
\* loop, after which the function body ends and None is returned.
ApiLoop ==
    /\ apiPc = "loop"
    /\ IF retry < MAX_RETRIES
          THEN /\ apiPc' = "call"
               /\ UNCHANGED apiResult
          ELSE /\ apiPc' = "done"
               /\ apiResult' = [kind |-> "return", val |-> "None"]
    /\ UNCHANGED <<apiPattern, retry, apiLog, apiRest>>

\* return func(**param) / return func(), and the except clause.
ApiCall ==
    /\ apiPc = "call"
    /\ apiLog' = Append(apiLog, CallEvent)
    /\ LET o == apiPattern[ApiCalls + 1] IN
         CASE o = "ok" ->
                /\ apiPc' = "done"
                /\ apiResult' = [kind |-> "return", val |-> "value"]
           [] o = "Exception" ->
                /\ apiPc' = "done"
                /\ apiResult' = [kind |-> "raise", val |-> o]
           [] OTHER ->
                IF IsThrottling(o)
                   THEN /\ apiPc' = "sleep"
                        /\ UNCHANGED apiResult
                   ELSE /\ apiPc' = "done"
                        /\ apiResult' = [kind |-> "raise", val |-> o]
    /\ UNCHANGED <<apiPattern, retry, apiRest>>

\* time.sleep(2 ** retry); continue
ApiSleep ==
    /\ apiPc = "sleep"
    /\ apiLog' = Append(apiLog, SleepEvent(BackoffDelay(retry)))
    /\ retry' = retry + 1
    /\ apiPc' = "loop"
    /\ UNCHANGED <<apiPattern, apiResult, apiRest>>

-----------------------------------------------------------------------------
(***************************************************************************)
(* get_client: the client cache of one session, used by the concurrently   *)
(* running tasks of one task set                                           *)
(***************************************************************************)

\* The threads that call get_client on the same lock and cache.
NCallers == 3

\* The get_client calls each of them makes.
MaxGets == 2

Callers == 1..NCallers

ServiceNames == {"ec2", "iam"}

\* A variant that enters the critical section without waiting for the lock.
LockNotTaken == TRUE

\* with lock: the block is entered only when no thread holds the lock
LockFree == lock = 0

\* session.client(name, config=CONFIG): the k-th client built for name
NewClient(name, k) == <<name, k>>

InitCacheVars ==
    /\ lock = 0
    /\ cache = <<>>
    /\ ctorCalls = [n \in ServiceNames |-> 0]
    /\ gcPc = [c \in Callers |-> "idle"]
    /\ gcName = [c \in Callers |-> "none"]
    /\ gcLeft = [c \in Callers |-> MaxGets]
    /\ gcRet = {}
    /\ ctorFailed = {}

\* A task calls get_client(session, lock, cache, name).
GcEnter(c) ==
    /\ gcPc[c] = "idle"
    /\ gcLeft[c] > 0
    /\ \E n \in ServiceNames : gcName' = [gcName EXCEPT ![c] = n]
    /\ gcLeft' = [gcLeft EXCEPT ![c] = @ - 1]
    /\ gcPc' = [gcPc EXCEPT ![c] = "acquire"]
    /\ UNCHANGED <<lock, cache, ctorCalls, gcRet, ctorFailed, cacheRest>>

\* with lock:
GcAcquire(c) ==
    /\ gcPc[c] = "acquire"
    /\ LockFree
    /\ lock' = c
    /\ gcPc' = [gcPc EXCEPT ![c] = "check"]
    /\ UNCHANGED <<cache, ctorCalls, gcName, gcLeft, gcRet, ctorFailed, cacheRest>>

\* if name not in cache:
GcCheck(c) ==
    /\ gcPc[c] = "check"
    /\ gcPc' = [gcPc EXCEPT ![c] =
                   IF gcName[c] \notin DOMAIN cache THEN "create" ELSE "return"]
    /\ UNCHANGED <<lock, cache, ctorCalls, gcName, gcLeft, gcRet, ctorFailed,
                   cacheRest>>

\* cache[name] = session.client(name, config=CONFIG)
GcCreate(c) ==
    /\ gcPc[c] = "create"
    /\ LET n == gcName[c]
           k == ctorCalls[n] + 1
       IN /\ ctorCalls' = [ctorCalls EXCEPT ![n] = k]
          /\ cache' = [m \in DOMAIN cache \cup {n} |->
                          IF m = n THEN NewClient(n, k) ELSE cache[m]]
    /\ gcPc' = [gcPc EXCEPT ![c] = "return"]
    /\ UNCHANGED <<lock, gcName, gcLeft, gcRet, ctorFailed, cacheRest>>

\* return cache[name], leaving the with block
GcReturn(c) ==
    /\ gcPc[c] = "return"
    /\ gcRet' = gcRet \cup
                  {[caller |-> c, name |-> gcName[c], handle |-> cache[gcName[c]]]}
    /\ lock' = IF lock = c THEN 0 ELSE lock
    /\ gcPc' = [gcPc EXCEPT ![c] = "idle"]
    /\ UNCHANGED <<cache, ctorCalls, gcName, gcLeft, ctorFailed, cacheRest>>

\* A variant in which an error leaves the with block with the lock held.
HeldOnError(c) == lock

\* with lock: an error that leaves the block releases the lock
ReleasedOnError(c) == IF lock = c THEN 0 ELSE lock

\* session.client(name, config=CONFIG) raises: nothing is stored in the
\* cache, the error leaves the with block and get_client, and the task
\* that called it fails, so this caller makes no further call.
GcCreateRaises(c) ==
    /\ gcPc[c] = "create"
    /\ LET n == gcName[c]
           k == ctorCalls[n] + 1
       IN /\ ctorCalls' = [ctorCalls EXCEPT ![n] = k]
          /\ ctorFailed' = ctorFailed \cup {NewClient(n, k)}
    /\ lock' = ReleasedOnError(c)
    /\ gcPc' = [gcPc EXCEPT ![c] = "raised"]
    /\ gcLeft' = [gcLeft EXCEPT ![c] = 0]
    /\ UNCHANGED <<cache, gcName, gcRet, cacheRest>>

-----------------------------------------------------------------------------
(***************************************************************************)
(* execute_tasks: the thread pool, the completion loop and the merge       *)
(***************************************************************************)

\* The largest number of tasks in one task list.
MaxTasks == 2

\* The tasks a task list is made of, each with the path and the kind of the
\* value it returns (a dict or a list). Paths have one or two segments; some
\* are equal to, or a prefix of, another, so that colliding lists occur.
TaskPool ==
    { [names |-> <<"iam">>, kind |-> "dict"],
      [names |-> <<"iam">>, kind |-> "list"],
      [names |-> <<"ecs">>, kind |-> "list"],
      [names |-> <<"iam", "Users">>, kind |-> "list"],
      [names |-> <<"iam", "Roles">>, kind |-> "list"] }

\* The {} that the merge creates for an intermediate level.
EmptyDict == [kind |-> "dict", id |-> 0]

\* The value that task t returns.
TaskValue(t) == [kind |-> tasks[t].kind, id |-> t]

TaskIds == DOMAIN tasks

\* threads if threads is not None else len(tasks)
PoolSize == IF threads = 0 THEN Len(tasks) ELSE threads

IsPrefix(p, q) == Len(p) <= Len(q) /\ SubSeq(q, 1, Len(p)) = p

\* A variant that creates the intermediate level even when it exists.
AlwaysAbsent(tree, p) == TRUE

\* if name not in obj
Absent(tree, p) == p \notin DOMAIN tree

\* obj can be indexed by a name: it is the output dict itself, or a dict
\* stored in it; indexing a list by a name raises TypeError.
IsDictAt(tree, c) == c = <<>> \/ (c \in DOMAIN tree /\ tree[c].kind = "dict")

\* if name not in obj: obj[name] = {}
\* obj[name] = value: the key is bound to the new value, and what was
\* stored below the old value goes with it.
AssignAt(tree, c, name, value) ==
    LET p == Append(c, name)
        kept == {q \in DOMAIN tree : ~IsPrefix(p, q)}
    IN [q \in kept \cup {p} |-> IF q = p THEN value ELSE tree[q]]

\* if name not in obj: obj[name] = {}
WalkInto(tree, c, name) ==
    IF Absent(tree, Append(c, name))
       THEN AssignAt(tree, c, name, EmptyDict)
       ELSE tree

\* A variant of the older merge that creates the first level anew for every
\* two-segment path.
OldMergeAnew(tree, names, value) ==
    [ok |-> TRUE,
     tree |-> AssignAt(AssignAt(tree, <<>>, names[1], EmptyDict),
                       <<names[1]>>, names[Len(names)], value)]

\* The merge of the older src/aws_import_cli.py for one (names, result):
\* output[names[0]] = result for one segment; for two segments
\* output[names[0]] = {} if it is missing, then
\* output[names[0]][names[1]] = result, a TypeError when output[names[0]]
\* is a list. ok tells whether the merge went through.
OldMerge(tree, names, value) ==
    IF Len(names) = 1
       THEN [ok |-> TRUE, tree |-> AssignAt(tree, <<>>, names[1], value)]
       ELSE LET made == IF <<names[1]>> \notin DOMAIN tree
                           THEN AssignAt(tree, <<>>, names[1], EmptyDict)
                           ELSE tree
            IN IF made[<<names[1]>>].kind = "dict"
                  THEN [ok |-> TRUE,
                        tree |-> AssignAt(made, <<names[1]>>, names[2], value)]
                  ELSE [ok |-> FALSE, tree |-> made]

NoEnd == [kind |-> "none"]

TaskError(t) == [kind |-> "raise", error |-> "task", task |-> t]

MergeError == [kind |-> "raise", error |-> "TypeError", task |-> 0]

\* A variant in which future.result() hands back a value for every future.
ResultNeverRaises(t) == FALSE

\* names, result = future.result(): re-raises the exception of the task
ResultRaises(t) == fut[t] = "failed"

\* A variant in which an error leaving the loop cancels the queued futures.
CancelQueued(s) == IF s = "pending" THEN "cancelled" ELSE s

\* The with block is left by an error: no future is touched.
AfterError(s) == s

\* A variant in which a finishing task stores its own result in the output.
WorkerStoresResult(t) == AssignAt(output, <<>>, tasks[t].names[1], TaskValue(t))

\* What a worker thread does to the output dictionary when task t ends.
WorkerOutput(t) == output

InitSchedVars ==
    /\ tasks = <<>>
    /\ threads = 0
    /\ delay = 0
    /\ fut = <<>>
    /\ mPc = "off"
    /\ cur = 0
    /\ cursor = <<>>
    /\ walked = 0
    /\ output = <<>>
    /\ reached = <<>>
    /\ merged = <<>>
    /\ slept = <<>>
    /\ atRaise = <<>>
    /\ schedEnd = NoEnd

\* future_to_result = [executor.submit(task) for task in tasks]
Submit ==
    /\ mPc = "submit"
    /\ IF \E t \in TaskIds : fut[t] = "new"
          THEN LET t == CHOOSE u \in TaskIds :
                            fut[u] = "new" /\ \A v \in 1..(u - 1) : fut[v] # "new"
               IN fut' = [fut EXCEPT ![t] = "pending"]
          ELSE UNCHANGED fut
    /\ mPc' = IF \E t \in TaskIds : fut'[t] = "new" THEN "submit" ELSE "iterate"
    /\ UNCHANGED <<tasks, threads, delay, cur, cursor, walked, output, reached,
                   merged, slept, atRaise, schedEnd, schedRest>>

\* A worker thread takes the oldest queued task; the pool has at most
\* PoolSize threads.
Start(t) ==
    /\ fut[t] = "pending"
    /\ \A u \in 1..(t - 1) : fut[u] # "pending"
    /\ Cardinality({u \in TaskIds : fut[u] = "running"}) < PoolSize
    /\ fut' = [fut EXCEPT ![t] = "running"]
    /\ UNCHANGED <<tasks, threads, delay, mPc, cur, cursor, walked, output,
                   reached, merged, slept, atRaise, schedEnd, schedRest>>

\* The task returns (names, result) or raises.
Finish(t) ==
    /\ fut[t] = "running"
    /\ \E o \in {"ok", "failed"} : fut' = [fut EXCEPT ![t] = o]
    /\ output' = WorkerOutput(t)
    /\ UNCHANGED <<tasks, threads, delay, mPc, cur, cursor, walked, reached,
                   merged, slept, atRaise, schedEnd, schedRest>>

\* A variant of the delay test that is true for every delay.
SleepsAlways(d) == TRUE

\* if delay: (None and 0 are false)
DelaySet(d) == d # 0

\* for future in concurrent.futures.as_completed(future_to_result): the
\* next finished future, or the end of the loop when all were yielded.
Iterate ==
    /\ mPc = "iterate"
    /\ LET yielded == {reached[i] : i \in DOMAIN reached} IN
       IF yielded = TaskIds
          THEN /\ mPc' = "exit"
               /\ UNCHANGED cur
          ELSE /\ \E t \in TaskIds \ yielded :
                     /\ fut[t] \in {"ok", "failed"}
                     /\ cur' = t
               /\ mPc' = IF DelaySet(delay) THEN "sleep" ELSE "result"
    /\ UNCHANGED <<tasks, threads, delay, fut, cursor, walked, output, reached,
                   merged, slept, atRaise, schedEnd, schedRest>>

\* if delay: time.sleep(delay)
Sleep ==
    /\ mPc = "sleep"
    /\ slept' = Append(slept, delay)
    /\ mPc' = "result"
    /\ UNCHANGED <<tasks, threads, delay, fut, cur, cursor, walked, output,
                   reached, merged, atRaise, schedEnd, schedRest>>

\* names, result = future.result(); obj = output
Result ==
    /\ mPc = "result"
    /\ reached' = Append(reached, cur)
    /\ IF ResultRaises(cur)
          THEN /\ mPc' = "unwind"
               /\ schedEnd' = TaskError(cur)
               /\ atRaise' = fut
               /\ fut' = [t \in TaskIds |-> AfterError(fut[t])]
               /\ UNCHANGED <<cursor, walked>>
          ELSE /\ mPc' = IF Len(tasks[cur].names) > 1 THEN "walk" ELSE "assign"
               /\ cursor' = <<>>
               /\ walked' = 0
               /\ UNCHANGED <<schedEnd, atRaise, fut>>
    /\ UNCHANGED <<tasks, threads, delay, cur, output, merged, slept, schedRest>>

\* for name in names[:-1]: one iteration
Walk ==
    /\ mPc = "walk"
    /\ LET names == tasks[cur].names
           name == names[walked + 1]
       IN IF IsDictAt(output, cursor)
             THEN /\ output' = WalkInto(output, cursor, name)
                  /\ cursor' = Append(cursor, name)
                  /\ walked' = walked + 1
                  /\ mPc' = IF walked + 1 < Len(names) - 1 THEN "walk" ELSE "assign"
                  /\ UNCHANGED <<schedEnd, atRaise, fut>>
             ELSE /\ mPc' = "unwind"
                  /\ schedEnd' = MergeError
                  /\ atRaise' = fut
                  /\ fut' = [t \in TaskIds |-> AfterError(fut[t])]
                  /\ UNCHANGED <<output, cursor, walked>>
    /\ UNCHANGED <<tasks, threads, delay, cur, reached, merged, slept, schedRest>>

\* obj[names[-1]] = result
Assign ==
    /\ mPc = "assign"
    /\ LET names == tasks[cur].names IN
       IF IsDictAt(output, cursor)
          THEN /\ output' = AssignAt(output, cursor, names[Len(names)], TaskValue(cur))
               /\ merged' = Append(merged, cur)
               /\ mPc' = "iterate"
               /\ UNCHANGED <<schedEnd, atRaise, fut>>
          ELSE /\ mPc' = "unwind"
               /\ schedEnd' = MergeError
               /\ atRaise' = fut
               /\ fut' = [t \in TaskIds |-> AfterError(fut[t])]
               /\ UNCHANGED <<output, merged>>
    /\ UNCHANGED <<tasks, threads, delay, cur, cursor, walked, reached, slept,
                   schedRest>>

\* A variant in which leaving the with block does not wait for the pool.
NoWait == TRUE

\* Leaving the with block calls executor.shutdown(wait=True): it returns
\* when no future is queued or running.
PoolIdle == \A t \in TaskIds : fut[t] \notin {"pending", "running"}

\* return output
Exit ==
    /\ mPc = "exit"
    /\ PoolIdle
    /\ mPc' = "returned"
    /\ schedEnd' = [kind |-> "return", tree |-> output]
    /\ UNCHANGED <<tasks, threads, delay, fut, cur, cursor, walked, output,
                   reached, merged, slept, atRaise, schedRest>>

\* The error leaves the with block and reaches the caller of execute_tasks.
Unwind ==
    /\ mPc = "unwind"
    /\ PoolIdle
    /\ mPc' = "raised"
    /\ UNCHANGED <<tasks, threads, delay, fut, cur, cursor, walked, output,
                   reached, merged, slept, atRaise, schedEnd, schedRest>>

-----------------------------------------------------------------------------
(***************************************************************************)
(* import_cli: validation, the account loop, the region loop               *)
(***************************************************************************)

PARSER_VERSION == 8

\* The largest number of account entries in a configuration.
MaxAccounts == 3

AccessKeys == {"AK1", "AK2"}

AccountIds == {"111", "222"}

\* session.get_available_regions(service): the provider's region list of a
\* service. Every region has ec2; rds is missing from one of them and
\* inspector from the other.
AvailableRegions(service) ==
    CASE service = "ec2" -> {"eu-west-1", "us-east-1"}
      [] service = "rds" -> {"eu-west-1"}
      [] service = "inspector" -> {"us-east-1"}
      [] OTHER -> {}

\* The region lists of the well-formed account entries: a valid name, a
\* list that holds a name twice, an unknown name and a second valid name,
\* and a list of unknown names only.
RegionLists ==
    { <<"eu-west-1">>,
      <<"eu-west-1", "mars-1", "eu-west-1", "us-east-1">>,
      <<"mars-1">> }

\* The account entries a configuration is made of. An entry is a JSON
\* object: any of its three keys may be missing, a string may be empty and
\* the region list may be empty.
AccountPool ==
    [access_key : {"AK1"}, secret_key : {"SK"}, regions : RegionLists]
    \cup { [access_key |-> "AK2", secret_key |-> "SK", regions |-> <<"eu-west-1">>],
           [access_key |-> "", secret_key |-> "SK", regions |-> <<"eu-west-1">>],
           [access_key |-> "AK1", secret_key |-> "SK", regions |-> <<>>],
           [access_key |-> "AK1", secret_key |-> "SK", regions |-> <<"">>],
           [secret_key |-> "SK", regions |-> <<"eu-west-1">>],
           [access_key |-> "AK1", regions |-> <<"eu-west-1">>],
           [access_key |-> "AK1", secret_key |-> "SK"] }

\* "#/definitions/string": {"type": "string", "minLength": 1}
ValidString(x) == x # ""

\* "#/definitions/account" of CONFIG_SCHEMA. The schema spells its list of
\* required keys "requried", a keyword jsonschema does not know and ignores:
\* a key is checked only when it is present.
ValidAccount(a) ==
    /\ "access_key" \in DOMAIN a => ValidString(a.access_key)
    /\ "secret_key" \in DOMAIN a => ValidString(a.secret_key)
    /\ "regions" \in DOMAIN a =>
          /\ Len(a.regions) >= 1
          /\ \A i \in DOMAIN a.regions : ValidString(a.regions[i])

\* A variant of the input validation that accepts every configuration.
AcceptAll(c) == TRUE

\* jsonschema.validate(instance=config, schema=CONFIG_SCHEMA)
ValidConfig(c) ==
    /\ Len(c) >= 1
    /\ \A i \in DOMAIN c : ValidAccount(c[i])

\* A task's value in the output: its kind, the task it comes from, and
\* whether it holds only JSON values (datetime objects are not).
ResultValue(task) == [kind |-> task.kind, id |-> task.id, json |-> task.json]

StrValue(x) == [kind |-> "str", str |-> x]

\* The tasks registered by get_global_services; clients are the services
\* whose client the task asks get_client for.
GlobalTasks ==
    << [names |-> <<"iam", "Users">>, kind |-> "list", id |-> "iam_list_users",
        json |-> FALSE, services |-> {}, clients |-> {"iam"}],
       [names |-> <<"iam", "Roles">>, kind |-> "list", id |-> "iam_list_roles",
        json |-> FALSE, services |-> {}, clients |-> {"iam"}],
       [names |-> <<"s3buckets">>, kind |-> "list", id |-> "s3api_list_buckets",
        json |-> FALSE, services |-> {}, clients |-> {"s3"}] >>

\* The tasks get_region_services hands to add_task, with their services;
\* optional marks the task that is only handed over "if include_inspector".
RegionTasks ==
    << [names |-> <<"instance">>, kind |-> "dict", id |-> "describe_instances",
        json |-> FALSE, services |-> {"ec2"}, optional |-> FALSE,
        clients |-> {"ec2"}],
       [names |-> <<"rds", "Instances">>, kind |-> "dict",
        id |-> "rds_describe_db_instances", json |-> FALSE, services |-> {"rds"},
        optional |-> FALSE, clients |-> {"rds"}],
       [names |-> <<"rds", "SubnetGroups">>, kind |-> "dict",
        id |-> "rds_describe_db_subnet_groups", json |-> TRUE, services |-> {"rds"},
        optional |-> FALSE, clients |-> {"rds"}],
       [names |-> <<"inspector">>, kind |-> "list", id |-> "inspector_list_findings",
        json |-> FALSE, services |-> {"inspector"}, optional |-> TRUE,
        clients |-> {"inspector"}] >>

\* The result paths of all the tasks get_global_services appends.
GlobalResultPaths ==
    { <<"iam", "Users">>, <<"iam", "Roles">>, <<"iam", "Groups">>,
      <<"iam", "Policies">>, <<"iam", "InstanceProfiles">>, <<"s3buckets">> }

\* The result paths of all the tasks get_region_services hands to add_task.
RegionResultPaths ==
    { <<"instance">>, <<"interface">>, <<"securitygroup">>, <<"subnet">>,
      <<"acl">>, <<"vpc">>, <<"vpcpeering">>, <<"igw">>, <<"vgw">>, <<"ngw">>,
      <<"routetable">>, <<"vpcendpoint">>, <<"ebs">>, <<"elb">>, <<"elbv2">>,
      <<"launchconfigs">>, <<"rds", "Instances">>, <<"rds", "SubnetGroups">>,
      <<"lambda">>, <<"kms">>, <<"inspector">>, <<"dynamodb">>, <<"ecr">>,
      <<"ecs">>, <<"apigateway">> }

\* A variant of add_task that appends every task.
RegisteredAlways(task, region) == TRUE

\* A variant of add_task that appends no task.
RegisteredNever(task, region) == FALSE

\* add_task: the task is appended unless the region lacks one of its services
Registered(task, region) ==
    \A service \in task.services : region \in AvailableRegions(service)

\* if include_inspector: add_task(inspector_list_findings, "inspector")
HandedOver(task) == task.optional => includeInspector

\* tasks of get_region_services, in the order of the add_task calls
RegionTaskList(region) ==
    SelectSeq(RegionTasks, LAMBDA t : HandedOver(t) /\ Registered(t, region))

\* The merge of execute_tasks for one (names, result): the walk over
\* names[:-1], then the assignment at names[-1].
RECURSIVE MergePath(_, _, _, _)
MergePath(tree, c, names, value) ==
    IF Len(names) = 1
       THEN AssignAt(tree, c, names[1], value)
       ELSE MergePath(WalkInto(tree, c, names[1]), Append(c, names[1]),
                      Tail(names), value)

\* The output dictionary after the results of the tasks of list, those
\* whose index is in done, were merged in list order.
RECURSIVE MergeAll(_, _, _)
MergeAll(tree, list, done) ==
    IF list = <<>>
       THEN tree
       ELSE LET k == Len(list)
                rest == MergeAll(tree, SubSeq(list, 1, k - 1), done)
            IN IF k \in done
                  THEN MergePath(rest, <<>>, list[k].names, ResultValue(list[k]))
                  ELSE rest

\* A variant that returns what was merged although a task failed.
ExecuteTasksLenient(list, failed) ==
    [kind |-> "return", tree |-> MergeAll(<<>>, list, DOMAIN list \ failed)]

\* execute_tasks as seen by its caller: the error of a failed task, or the
\* tree of all results.
ExecuteTasks(list, failed) ==
    IF failed # {}
       THEN [kind |-> "raise", error |-> "TaskError"]
       ELSE [kind |-> "return", tree |-> MergeAll(<<>>, list, DOMAIN list)]

\* A variant of get_valid_regions that keeps every configured name.
KeepAllRegions(regions) == regions

\* A variant of get_valid_regions that returns the names last to first.
ValidRegionsReversed(regions) ==
    LET valid == SelectSeq(regions, LAMBDA r : r \in AvailableRegions("ec2"))
    IN [k \in DOMAIN valid |-> valid[Len(valid) + 1 - k]]

\* get_valid_regions: the configured names the provider lists for ec2
ValidRegionsOf(regions) ==
    SelectSeq(regions, LAMBDA r : r \in AvailableRegions("ec2"))

InvalidRegionsOf(regions) ==
    SelectSeq(regions, LAMBDA r : r \notin AvailableRegions("ec2"))

Warning(kind, what) == [msg |-> kind, what |-> what]

RECURSIVE Warnings(_, _)
Warnings(kind, items) ==
    IF items = <<>> THEN <<>>
    ELSE <<Warning(kind, Head(items))>> \o Warnings(kind, Tail(items))

Step(name, a, region) == [step |-> name, acct |-> a, region |-> region]

\* output, the dict that is validated and returned
OutputDoc == [parser_version |-> PARSER_VERSION, accounts |-> outAccounts]

\* A variant of the version check with the lower bound only.
VersionAtLeast(v) == v >= PARSER_VERSION

\* OUTPUT_SCHEMA, parser_version: "minimum" and "maximum" are PARSER_VERSION
VersionAccepted(v) ==
    /\ v >= PARSER_VERSION
    /\ v <= PARSER_VERSION

\* jsonschema.validate(instance=output, schema=OUTPUT_SCHEMA)
ValidOutput(doc) ==
    /\ VersionAccepted(doc.parser_version)
    /\ Len(doc.accounts) >= 1
    /\ \A i \in DOMAIN doc.accounts :
         LET a == doc.accounts[i] IN
         /\ DOMAIN a = {"account_id", "account_aliases", "global", "regions"}
         /\ ValidString(a.account_id)
         /\ \A j \in DOMAIN a.account_aliases : ValidString(a.account_aliases[j])
         /\ Len(a.regions) >= 1
         /\ \A j \in DOMAIN a.regions :
              /\ <<"region_name">> \in DOMAIN a.regions[j]
              /\ a.regions[j][<<"region_name">>].kind = "str"
              /\ ValidString(a.regions[j][<<"region_name">>].str)

\* json.dumps(..., default=serialize_datetime) followed by json.loads, on
\* one fragment: every datetime becomes a string.
JsonTree(tree) ==
    [p \in DOMAIN tree |->
        IF "json" \in DOMAIN tree[p] THEN [tree[p] EXCEPT !.json = TRUE] ELSE tree[p]]

\* json.loads(json.dumps(output, default=serialize_datetime))
JsonRoundTrip(doc) ==
    [parser_version |-> doc.parser_version,
     accounts |->
        [i \in DOMAIN doc.accounts |->
            LET a == doc.accounts[i]
            IN [k \in DOMAIN a |->
                   CASE k = "global" -> JsonTree(a.global)
                     [] k = "regions" ->
                          [j \in DOMAIN a.regions |-> JsonTree(a.regions[j])]
                     [] OTHER -> a[k]]]]

NoAccountData == [account_id |-> ""]

\* boto3.session.Session(aws_access_key_id=..., aws_secret_access_key=...
\* [, region_name=region]): the session of entry a, unscoped when region
\* is "".
NewSession(a, region) ==
    [acct |-> a, access_key |-> config[a].access_key, region |-> region]

\* A variant in which every step runs on the first session opened.
FirstSession == IF sessionLog = <<>> THEN 0 ELSE 1

\* session, the local variable of import_cli: the session opened last
CurrentSession == Len(sessionLog)

\* The clients that get_account_data asks get_client for.
IdentityClients == {"sts", "iam"}

\* The clients that the tasks of list ask get_client for.
ClientsOf(list) == UNION {list[k].clients : k \in DOMAIN list}

\* One call of get_account_data, get_global_services or
\* get_region_services: the session it is given, the client cache it
\* creates (client_lock = Lock(); client_cache = {}) and the clients that
\* are constructed into that cache.
Use(built) ==
    [session |-> CurrentSession, cache |-> Len(uses) + 1, clients |-> built]

InitImpVars ==
    /\ config = <<>>
    /\ identity = <<>>
    /\ includeInspector = FALSE
    /\ iPc = "off"
    /\ acct = 0
    /\ accountData = NoAccountData
    /\ validRegions = <<>>
    /\ regIdx = 0
    /\ outAccounts = <<>>
    /\ sessions = 0
    /\ sessionLog = <<>>
    /\ iTrace = <<>>
    /\ uses = <<>>
    /\ logged = <<>>
    /\ validated = FALSE
    /\ impEnd = NoEnd

ImpRaise(error) ==
    /\ iPc' = "raised"
    /\ impEnd' = [kind |-> "raise", error |-> error]

\* jsonschema.validate(instance=config, schema=CONFIG_SCHEMA)
ValidateConfig ==
    /\ iPc = "validate"
    /\ IF ValidConfig(config)
          THEN iPc' = "account" /\ UNCHANGED impEnd
          ELSE ImpRaise("ValidationError")
    /\ UNCHANGED <<config, identity, includeInspector,
                   acct, accountData, validRegions, regIdx,
                   outAccounts, sessions, sessionLog, iTrace, uses, logged,
                   validated, impRest>>

\* for account in config["accounts"]: session = boto3.session.Session(...)
NextAccount ==
    /\ iPc = "account"
    /\ IF acct = Len(config)
          THEN /\ iPc' = "validate_output"
               /\ logged' = Append(logged, Warning("finished", ""))
               /\ UNCHANGED <<acct, sessions, sessionLog, impEnd>>
          ELSE /\ acct' = acct + 1
               /\ UNCHANGED logged
               /\ IF {"access_key", "secret_key"} \subseteq DOMAIN config[acct + 1]
                     THEN /\ sessions' = sessions + 1
                          /\ sessionLog' = Append(sessionLog, NewSession(acct + 1, ""))
                          /\ iPc' = "identity"
                          /\ UNCHANGED impEnd
                     ELSE /\ ImpRaise("KeyError")
                          /\ UNCHANGED <<sessions, sessionLog>>
    /\ UNCHANGED <<config, identity, includeInspector,
                   accountData, validRegions, regIdx,
                   outAccounts, iTrace, uses, validated, impRest>>

\* account_data = get_account_data(session): the identity and the aliases,
\* or the error of one of the two remote calls.
GetAccountData ==
    /\ iPc = "identity"
    /\ iTrace' = Append(iTrace, Step("identity", acct, ""))
    /\ \E ok \in BOOLEAN :
          IF ok
             THEN /\ accountData' = [account_id |-> identity[config[acct].access_key],
                                     account_aliases |-> <<"alias">>,
                                     regions |-> <<>>]
                  /\ uses' = Append(uses, Use(IdentityClients))
                  /\ iPc' = "duplicate"
                  /\ UNCHANGED impEnd
             ELSE /\ ImpRaise("ClientError")
                  /\ \E built \in {{"sts"}, IdentityClients} :
                        uses' = Append(uses, Use(built))
                  /\ UNCHANGED accountData
    /\ UNCHANGED <<config, identity, includeInspector,
                   acct, validRegions, regIdx, outAccounts,
                   sessions, sessionLog, logged, validated, impRest>>

\* A variant of the duplicate test that never finds the account.
NeverSeen(id) == FALSE

\* account_data["account_id"] in {a["account_id"] for a in output["accounts"]}
AlreadyCollected(id) ==
    \E i \in DOMAIN outAccounts : outAccounts[i].account_id = id

\* if <duplicate>: log_func(...); continue
DuplicateCheck ==
    /\ iPc = "duplicate"
    /\ IF AlreadyCollected(accountData.account_id)
          THEN /\ logged' = Append(logged,
                               Warning("Duplicate AWS account", accountData.account_id))
               /\ iPc' = "account"
          ELSE /\ iPc' = "global"
               /\ UNCHANGED logged
    /\ UNCHANGED <<config, identity, includeInspector,
                   acct, accountData, validRegions, regIdx,
                   outAccounts, sessions, sessionLog, iTrace, uses,
                   validated, impEnd, impRest>>

\* account_data["global"] = get_global_services(session, threads, delay, log_func)
GlobalServices ==
    /\ iPc = "global"
    /\ iTrace' = Append(iTrace, Step("global", acct, ""))
    /\ \E failed \in SUBSET DOMAIN GlobalTasks :
          LET res == ExecuteTasks(GlobalTasks, failed) IN
          IF res.kind = "return"
             THEN /\ accountData' =
                        [k \in DOMAIN accountData \cup {"global"} |->
                            IF k = "global" THEN res.tree ELSE accountData[k]]
                  /\ uses' = Append(uses, Use(ClientsOf(GlobalTasks)))
                  /\ iPc' = "regions"
                  /\ UNCHANGED impEnd
             ELSE /\ ImpRaise(res.error)
                  /\ \E built \in SUBSET ClientsOf(GlobalTasks) :
                        uses' = Append(uses, Use(built))
                  /\ UNCHANGED accountData
    /\ UNCHANGED <<config, identity, includeInspector,
                   acct, validRegions, regIdx, outAccounts,
                   sessions, sessionLog, logged, validated, impRest>>

\* A variant that stores the region name under the key of the first task.
SetRegionNameAtTask(tree, region) ==
    AssignAt(tree, <<>>, RegionTasks[1].names[1], StrValue(region))

\* region_data["region_name"] = region
SetRegionName(tree, region) == AssignAt(tree, <<>>, "region_name", StrValue(region))

\* A variant of the emptiness test that lets an empty list through.
NeverEmpty(valid) == FALSE

\* if not valid_regions
NoValidRegion(valid) == valid = <<>>

\* valid_regions = get_valid_regions(session, account["regions"])
\* if not valid_regions: raise ValueError("No valid AWS region found")
GetValidRegions ==
    /\ iPc = "regions"
    /\ IF "regions" \notin DOMAIN config[acct]
          THEN /\ ImpRaise("KeyError")
               /\ UNCHANGED <<validRegions, regIdx, logged>>
          ELSE LET regions == config[acct].regions IN
               /\ validRegions' = ValidRegionsOf(regions)
               /\ regIdx' = 0
               /\ logged' = logged \o Warnings("not a valid AWS region",
                                               InvalidRegionsOf(regions))
               /\ IF NoValidRegion(ValidRegionsOf(regions))
                     THEN ImpRaise("ValueError")
                     ELSE iPc' = "region" /\ UNCHANGED impEnd
    /\ UNCHANGED <<config, identity, includeInspector,
                   acct, accountData, outAccounts, sessions, sessionLog,
                   iTrace, uses, validated, impRest>>

\* A variant of the region test that never finds the region.
RegionNeverCollected(region) == FALSE

\* region in {r["region_name"] for r in account_data["regions"]}
RegionCollected(region) ==
    \E j \in DOMAIN accountData.regions :
        accountData.regions[j][<<"region_name">>] = StrValue(region)

\* for region in valid_regions: the duplicate test and the scoped session;
\* after the last region, output["accounts"].append(account_data)
NextRegion ==
    /\ iPc = "region"
    /\ IF regIdx = Len(validRegions)
          THEN /\ outAccounts' = Append(outAccounts, accountData)
               /\ iPc' = "account"
               /\ UNCHANGED <<regIdx, logged, sessions, sessionLog>>
          ELSE /\ regIdx' = regIdx + 1
               /\ UNCHANGED outAccounts
               /\ IF RegionCollected(validRegions[regIdx + 1])
                     THEN /\ logged' = Append(logged,
                                 Warning("Duplicate AWS region", validRegions[regIdx + 1]))
                          /\ UNCHANGED <<iPc, sessions, sessionLog>>
                     ELSE /\ sessions' = sessions + 1
                          /\ sessionLog' = Append(sessionLog,
                                  NewSession(acct, validRegions[regIdx + 1]))
                          /\ iPc' = "region_data"
                          /\ UNCHANGED logged
    /\ UNCHANGED <<config, identity, includeInspector,
                   acct, accountData, validRegions, iTrace, uses,
                   validated, impEnd, impRest>>

\* region_data = get_region_data(session, region)
\* account_data["regions"].append(region_data)
GetRegionData ==
    /\ iPc = "region_data"
    /\ LET region == validRegions[regIdx]
           list == RegionTaskList(region)
       IN /\ iTrace' = Append(iTrace, Step("region", acct, region))
          /\ \E failed \in SUBSET DOMAIN list :
                LET res == ExecuteTasks(list, failed) IN
                IF res.kind = "return"
                   THEN /\ accountData' =
                              [accountData EXCEPT !.regions =
                                  Append(@, SetRegionName(res.tree, region))]
                        /\ uses' = Append(uses, Use(ClientsOf(list)))
                        /\ iPc' = "region"
                        /\ UNCHANGED impEnd
                   ELSE /\ ImpRaise(res.error)
                        /\ \E built \in SUBSET ClientsOf(list) :
                              uses' = Append(uses, Use(built))
                        /\ UNCHANGED accountData
    /\ UNCHANGED <<config, identity, includeInspector,
                   acct, validRegions, regIdx, outAccounts,
                   sessions, sessionLog, logged, validated, impRest>>

\* jsonschema.validate(instance=output, schema=OUTPUT_SCHEMA), with
\* ValidationError turned into ValueError
ValidateOutput ==
    /\ iPc = "validate_output"
    /\ IF ValidOutput(OutputDoc)
          THEN /\ validated' = TRUE
               /\ iPc' = "return"
               /\ UNCHANGED impEnd
          ELSE /\ ImpRaise("ValueError")
               /\ UNCHANGED validated
    /\ UNCHANGED <<config, identity, includeInspector,
                   acct, accountData, validRegions, regIdx,
                   outAccounts, sessions, sessionLog, iTrace, uses, logged,
                   impRest>>

\* return json.loads(json.dumps(output, default=serialize_datetime))
Return ==
    /\ iPc = "return"
    /\ iPc' = "returned"
    /\ impEnd' = [kind |-> "return", doc |-> JsonRoundTrip(OutputDoc)]
    /\ UNCHANGED <<config, identity, includeInspector,
                   acct, accountData, validRegions, regIdx,
                   outAccounts, sessions, sessionLog, iTrace, uses, logged,
                   validated, impRest>>

-----------------------------------------------------------------------------
(***************************************************************************)
(* fake_paginate: a bulk lookup in chunks of n ids                         *)
(***************************************************************************)

\* The largest number of ids handed to fake_paginate.
MaxIds == 4

\* The largest chunk size.
MaxChunk == 3

Ids == {"arn1", "arn2"}

Min(a, b) == IF a <= b THEN a ELSE b

\* tail[:n]
SliceTo(s, n) == SubSeq(s, 1, Min(n, Len(s)))

\* A variant of the second slice that starts one element later.
SliceFromNext(s, n) == SubSeq(s, Min(n + 1, Len(s)) + 1, Len(s))

\* tail[n:]
SliceFrom(s, n) == SubSeq(s, Min(n, Len(s)) + 1, Len(s))

\* unpaginated(client, func, key=response_key, param=param): the response
\* list of one bulk call, a description of every requested id the provider
\* knows, in request order.
Describe(head) ==
    LET known == SelectSeq(head, LAMBDA x : x \in fpKnown)
    IN [k \in DOMAIN known |-> [arn |-> known[k]]]

InitFpVars ==
    /\ fpItems = <<>>
    /\ fpN = 0
    /\ fpKnown = {}
    /\ fpPc = "off"
    /\ fpTail = <<>>
    /\ fpCalls = <<>>
    /\ fpPages = <<>>
    /\ fpEnd = NoEnd

\* while len(tail) > 0
FpLoop ==
    /\ fpPc = "while"
    /\ fpPc' = IF Len(fpTail) > 0 THEN "chunk" ELSE "return"
    /\ UNCHANGED <<fpItems, fpN, fpKnown, fpTail, fpCalls, fpPages, fpEnd, fpRest>>

\* head = tail[:n]; tail = tail[n:]; param[request_key] = head;
\* pages_data.extend(unpaginated(...)), or the error of the call
FpChunk ==
    /\ fpPc = "chunk"
    /\ LET head == SliceTo(fpTail, fpN) IN
       /\ fpTail' = SliceFrom(fpTail, fpN)
       /\ \E ok \in BOOLEAN :
             IF ok
                THEN /\ fpCalls' = Append(fpCalls, [request |-> head, ok |-> TRUE,
                                                    response |-> Describe(head)])
                     /\ fpPages' = fpPages \o Describe(head)
                     /\ fpPc' = "while"
                     /\ UNCHANGED fpEnd
                ELSE /\ fpCalls' = Append(fpCalls, [request |-> head, ok |-> FALSE,
                                                    response |-> <<>>])
                     /\ fpPc' = "raised"
                     /\ fpEnd' = [kind |-> "raise", error |-> "ClientError"]
                     /\ UNCHANGED fpPages
    /\ UNCHANGED <<fpItems, fpN, fpKnown, fpRest>>

\* return pages_data
FpReturn ==
    /\ fpPc = "return"
    /\ fpPc' = "returned"
    /\ fpEnd' = [kind |-> "return", result |-> fpPages]
    /\ UNCHANGED <<fpItems, fpN, fpKnown, fpTail, fpCalls, fpPages, fpRest>>

-----------------------------------------------------------------------------
(***************************************************************************)
(* Enrichment tasks: s3api_list_buckets, iam_list_users and                *)
(* ecr_describe_repositories list items and look up sub-resources of each  *)
(***************************************************************************)

\* The largest number of items a listing returns.
MaxItems == 2

EnrichTasks == {"s3api_list_buckets", "iam_list_users", "ecr_describe_repositories"}

\* The path the task returns with its items.
ResultPath(task) ==
    CASE task = "s3api_list_buckets" -> <<"s3buckets">>
      [] task = "iam_list_users" -> <<"iam", "Users">>
      [] task = "ecr_describe_repositories" -> <<"ecr">>

\* The sub-resource lookups made for each item, by the field they fill.
Lookups(task) ==
    CASE task = "s3api_list_buckets" -> <<"Encryption", "Public", "Policy", "Tags">>
      [] task = "iam_list_users" -> <<"HasLoginProfile">>
      [] task = "ecr_describe_repositories" -> <<"policy", "imageIds">>

\* What a lookup can do: return the sub-resource, fail with the provider's
\* error for a missing sub-resource, fail with another provider error, or
\* be throttled on each of the MAX_RETRIES attempts of api_call.
LookupOutcomes == {"found", "not_found", "other_error", "exhausted"}

\* list_images is a listing: there is no missing sub-resource.
OutcomesOf(field) ==
    IF field = "imageIds" THEN LookupOutcomes \ {"not_found"} ELSE LookupOutcomes

\* The exception that leaves unpaginated_cached / paginate_cached. After
\* MAX_RETRIES throttled attempts api_call returns None: remove_metadata
\* then fails on None.items() and the page loop on iterating None.
ErrorOf(field, outcome) ==
    CASE outcome = "exhausted" /\ field = "imageIds" -> "TypeError"
      [] outcome = "exhausted" /\ field # "imageIds" -> "AttributeError"
      [] OTHER -> outcome

\* A variant in which no except clause matches.
CatchesNothing(task, field, outcome) == FALSE

\* A variant in which every except clause matches every exception.
CatchesAll(task, field, outcome) == TRUE

\* Whether the except clause around the lookup matches the error:
\* (KeyError, ClientError) for a bucket, ClientError with the code
\* NoSuchEntity for a login profile, RepositoryPolicyNotFoundException for
\* a repository policy, and none around list_images.
Catches(task, field, outcome) ==
    CASE task = "s3api_list_buckets" -> outcome \in {"not_found", "other_error"}
      [] task = "iam_list_users" -> outcome = "not_found"
      [] task = "ecr_describe_repositories" ->
            field = "policy" /\ outcome = "not_found"

NoneValue == [kind |-> "None"]

BoolValue(b) == [kind |-> "bool", val |-> b]

\* item[field] = value
SetField(item, field, value) ==
    [k \in DOMAIN item \cup {field} |-> IF k = field THEN value ELSE item[k]]

\* The try body after a lookup that returned.
OnFound(task, item, field) ==
    IF field = "Public"
       THEN SetField(item, field, BoolValue(TRUE))
       ELSE SetField(item, field, [kind |-> "value", of |-> field])

\* The except body: pass, bucket["Public"] = False,
\* user["HasLoginProfile"] = None or repository["policy"] = None
OnCaught(task, item, field) ==
    CASE task = "s3api_list_buckets" ->
            IF field = "Public" THEN SetField(item, field, BoolValue(FALSE)) ELSE item
      [] OTHER -> SetField(item, field, NoneValue)

InitEnVars ==
    /\ enTask = "none"
    /\ enPc = "off"
    /\ enItems = <<>>
    /\ enIdx = 0
    /\ enLook = 0
    /\ enLog = <<>>
    /\ enEnd = NoEnd

EnRaise(error) ==
    /\ enPc' = "raised"
    /\ enEnd' = [kind |-> "raise", error |-> error]

\* The listing call of the task: its items, or its error.
EnList ==
    /\ enPc = "list"
    /\ \E n \in 0..MaxItems, ok \in BOOLEAN :
          IF ok
             THEN /\ enItems' = [k \in 1..n |-> [Name |-> [kind |-> "name", n |-> k]]]
                  /\ enPc' = "loop"
                  /\ UNCHANGED enEnd
             ELSE /\ EnRaise("other_error")
                  /\ UNCHANGED enItems
    /\ UNCHANGED <<enTask, enIdx, enLook, enLog, enRest>>

\* for item in items; after the last item, return path, items
EnNext ==
    /\ enPc = "loop"
    /\ IF enIdx = Len(enItems)
          THEN /\ enPc' = "returned"
               /\ enEnd' = [kind |-> "return", names |-> ResultPath(enTask),
                            items |-> enItems]
               /\ UNCHANGED <<enIdx, enLook>>
          ELSE /\ enIdx' = enIdx + 1
               /\ enLook' = 1
               /\ enPc' = "lookup"
               /\ UNCHANGED enEnd
    /\ UNCHANGED <<enTask, enItems, enLog, enRest>>

\* One try / except around a sub-resource lookup of the current item.
EnLookup ==
    /\ enPc = "lookup"
    /\ LET field == Lookups(enTask)[enLook]
           last == enLook = Len(Lookups(enTask))
       IN \E o \in OutcomesOf(field) :
             /\ enLog' = Append(enLog, [item |-> enIdx, field |-> field, outcome |-> o])
             /\ IF o # "found" /\ ~Catches(enTask, field, o)
                   THEN /\ EnRaise(ErrorOf(field, o))
                        /\ UNCHANGED <<enItems, enLook>>
                   ELSE /\ enItems' =
                              [enItems EXCEPT ![enIdx] =
                                  IF o = "found" THEN OnFound(enTask, @, field)
                                                 ELSE OnCaught(enTask, @, field)]
                        /\ enLook' = IF last THEN enLook ELSE enLook + 1
                        /\ enPc' = IF last THEN "loop" ELSE "lookup"
                        /\ UNCHANGED enEnd
    /\ UNCHANGED <<enTask, enIdx, enRest>>

-----------------------------------------------------------------------------
(***************************************************************************)
(* paginate_cached: a listing fetched page by page                         *)
(***************************************************************************)

\* The largest number of pages of a listing.
MaxPages == 3

\* key, the field of a page that holds the listed items
ResultKey == "Items"

\* The pages a provider can answer with. Every page carries the envelope
\* key ResponseMetadata; a page can carry other keys, and can lack key.
PagePool ==
    { [ResponseMetadata |-> "meta", Items |-> <<>>],
      [ResponseMetadata |-> "meta", Items |-> <<"a">>],
      [ResponseMetadata |-> "meta", Items |-> <<"b", "a">>, NextToken |-> "t"],
      [ResponseMetadata |-> "meta", NextToken |-> "t"] }

\* What the fetch of one page can do.
FetchOutcomes == {"ok", "Throttling", "other_error"}

\* remove_metadata(obj)
RemoveMetadata(obj) == [k \in DOMAIN obj \ {"ResponseMetadata"} |-> obj[k]]

\* A variant of the extension that puts the new items first.
ExtendFront(data, items) == items \o data

\* pages_data.extend(clean_page[key])
Extend(data, items) == data \o items

InitPgVars ==
    /\ pgPages = <<>>
    /\ pgPc = "off"
    /\ pgIdx = 0
    /\ pgData = <<>>
    /\ pgLog = <<>>
    /\ pgEnd = NoEnd

PgRaise(error) ==
    /\ pgPc' = "raised"
    /\ pgEnd' = [kind |-> "raise", error |-> error]

\* page_iterator = api_call(caller_func, param): paginator.paginate builds
\* the iterator and sends no request, so the call wrapped by api_call
\* returns at its first attempt.
PgPaginate ==
    /\ pgPc = "paginate"
    /\ pgPc' = "next"
    /\ UNCHANGED <<pgPages, pgIdx, pgData, pgLog, pgEnd, pgRest>>

\* for page in page_iterator: the iterator sends the request of the next
\* page inside the for statement; its error leaves paginate_cached.
PgNext ==
    /\ pgPc = "next"
    /\ IF pgIdx = Len(pgPages)
          THEN /\ pgPc' = "return"
               /\ UNCHANGED <<pgIdx, pgLog, pgEnd>>
          ELSE \E o \in FetchOutcomes :
                  /\ pgLog' = Append(pgLog, [page |-> pgIdx + 1, outcome |-> o])
                  /\ IF o = "ok"
                        THEN /\ pgIdx' = pgIdx + 1
                             /\ pgPc' = "page"
                             /\ UNCHANGED pgEnd
                        ELSE /\ PgRaise(o)
                             /\ UNCHANGED pgIdx
    /\ UNCHANGED <<pgPages, pgData, pgRest>>

\* clean_page = remove_metadata(page); pages_data.extend(clean_page[key])
PgPage ==
    /\ pgPc = "page"
    /\ LET clean_page == RemoveMetadata(pgPages[pgIdx]) IN
       IF ResultKey \in DOMAIN clean_page
          THEN /\ pgData' = Extend(pgData, clean_page[ResultKey])
               /\ pgPc' = "next"
               /\ UNCHANGED pgEnd
          ELSE /\ PgRaise("KeyError")
               /\ UNCHANGED pgData
    /\ UNCHANGED <<pgPages, pgIdx, pgLog, pgRest>>

\* return {key: pages_data}
PgReturn ==
    /\ pgPc = "return"
    /\ pgPc' = "returned"
    /\ pgEnd' = [kind |-> "return", result |-> [k \in {ResultKey} |-> pgData]]
    /\ UNCHANGED <<pgPages, pgIdx, pgData, pgLog, pgRest>>

-----------------------------------------------------------------------------
(***************************************************************************)
(* inspector_list_findings: the findings of the latest run that has any    *)
(***************************************************************************)

\* The largest number of assessment runs in the time window.
MaxRuns == 3

\* The values of completedAt.
CompletedAts == {1, 2}

\* The finding counts of a run, by severity.
FindingCounts ==
    { [High |-> 0, Low |-> 0], [High |-> 0, Low |-> 2], [High |-> 1, Low |-> 1] }

\* The description of the run with the given arn: findingCounts can be
\* missing from it.
RunsWithArn(arn) ==
    { [arn |-> arn, completedAt |-> t] : t \in CompletedAts }
    \cup { [arn |-> arn, completedAt |-> t, findingCounts |-> c] :
              t \in CompletedAts, c \in FindingCounts }

\* run_arn = None
NoRun == 0

\* sum(counts.values()) over the given keys
RECURSIVE SumValues(_, _)
SumValues(counts, keys) ==
    IF keys = {}
       THEN 0
       ELSE LET k == CHOOSE x \in keys : TRUE IN
            counts[k] + SumValues(counts, keys \ {k})

\* count = sum(run.get("findingCounts", {}).values())
Count(run) ==
    IF "findingCounts" \in DOMAIN run
       THEN SumValues(run.findingCounts, DOMAIN run.findingCounts)
       ELSE 0

\* A variant of the order that puts the oldest run first.
OldestFirst(a, b) == a.completedAt <= b.completedAt

\* key=lambda x: x["completedAt"], reverse=True: a stays before b
LatestFirst(a, b) == a.completedAt >= b.completedAt

\* The place of run in a sorted list: behind every run that stays before it.
Insert(run, sorted) ==
    LET k == Cardinality({i \in DOMAIN sorted : LatestFirst(sorted[i], run)}) IN
    SubSeq(sorted, 1, k) \o <<run>> \o SubSeq(sorted, k + 1, Len(sorted))

\* sorted(runs_details, key=..., reverse=True), which keeps the order of
\* runs with the same completedAt
RECURSIVE Sorted(_)
Sorted(runs) ==
    IF runs = <<>>
       THEN <<>>
       ELSE Insert(runs[Len(runs)], Sorted(SubSeq(runs, 1, Len(runs) - 1)))

\* for run in sorted(...): if count > 0: run_arn = run["arn"]; break
SelectRun(runs) ==
    LET sorted == Sorted(runs)
        hits == {i \in DOMAIN sorted : Count(sorted[i]) > 0}
    IN  IF hits = {}
           THEN NoRun
           ELSE sorted[CHOOSE i \in hits : \A j \in hits : i <= j].arn

\* The findings the provider lists for a run.
FindingsOf(arn) ==
    IF arn = NoRun
       THEN <<>>
       ELSE [k \in 1..Count(insRuns[arn]) |-> [run |-> arn, finding |-> k]]

InitInsVars ==
    /\ insRuns = <<>>
    /\ insPc = "off"
    /\ insRunArn = NoRun
    /\ insCalls = <<>>
    /\ insEnd = NoEnd

InitListVars == InitFpVars /\ InitEnVars /\ InitPgVars /\ InitInsVars

\* An operation of the inspector service called for the given runs.
InsCall(op, runs) == insCalls' = Append(insCalls, [op |-> op, runs |-> runs])

\* return ["inspector"], items
InsReturn(items) ==
    /\ insPc' = "returned"
    /\ insEnd' = [kind |-> "return", path |-> <<"inspector">>, items |-> items]

\* An error of a call leaves the task.
InsRaise ==
    /\ insPc' = "raised"
    /\ insEnd' = [kind |-> "raise", error |-> "ClientError"]

\* runs = paginate("inspector", "list_assessment_runs", ...)
\* if not runs: return ["inspector"], []
InsListRuns(ok) ==
    /\ insPc = "list_runs"
    /\ InsCall("list_assessment_runs", <<>>)
    /\ IF ~ok
          THEN InsRaise
          ELSE IF insRuns = <<>>
                  THEN InsReturn(<<>>)
                  ELSE insPc' = "describe_runs" /\ UNCHANGED insEnd
    /\ UNCHANGED <<insRuns, insRunArn, insRest>>

\* runs_details = fake_paginate("inspector", "describe_assessment_runs", ...)
\* and the loop that sets run_arn; if run_arn is None: return ["inspector"], []
InsDescribeRuns(ok) ==
    /\ insPc = "describe_runs"
    /\ InsCall("describe_assessment_runs", [i \in DOMAIN insRuns |-> insRuns[i].arn])
    /\ IF ~ok
          THEN InsRaise /\ UNCHANGED insRunArn
          ELSE /\ insRunArn' = SelectRun(insRuns)
               /\ IF insRunArn' = NoRun
                     THEN InsReturn(<<>>)
                     ELSE insPc' = "packages" /\ UNCHANGED insEnd
    /\ UNCHANGED <<insRuns, insRest>>

\* all_package_arns = paginate("inspector", "list_rules_packages", ...) and
\* the description of the packages
InsPackages(ok) ==
    /\ insPc = "packages"
    /\ InsCall("list_rules_packages", <<>>)
    /\ IF ~ok
          THEN InsRaise
          ELSE insPc' = "list_findings" /\ UNCHANGED insEnd
    /\ UNCHANGED <<insRuns, insRunArn, insRest>>

\* findings = paginate("inspector", "list_findings", param, ...) with
\* "assessmentRunArns": [run_arn]
InsListFindings(ok) ==
    /\ insPc = "list_findings"
    /\ InsCall("list_findings", <<insRunArn>>)
    /\ IF ~ok
          THEN InsRaise
          ELSE insPc' = "describe_findings" /\ UNCHANGED insEnd
    /\ UNCHANGED <<insRuns, insRunArn, insRest>>

\* findings_details = fake_paginate("inspector", "describe_findings", ...)
\* return ["inspector"], findings_details
InsDescribeFindings(ok) ==
    /\ insPc = "describe_findings"
    /\ InsCall("describe_findings", <<insRunArn>>)
    /\ IF ~ok
          THEN InsRaise
          ELSE InsReturn(FindingsOf(insRunArn))
    /\ UNCHANGED <<insRuns, insRunArn, insRest>>

-----------------------------------------------------------------------------
(***************************************************************************)
(* s3api_list_buckets: the public status of the buckets, in the collector  *)
(* of the package and in the older src/aws_import_cli.py                   *)
(***************************************************************************)

\* The largest number of buckets.
MaxBuckets == 2

\* The two collector files.
CollectorFiles == {"package", "older"}

\* What get_bucket_policy_status can answer for a bucket: a ClientError
\* (the bucket has no policy), nothing after MAX_RETRIES throttled attempts
\* (api_call returns None), or a response with or without PolicyStatus.
PolicyStatusAnswers ==
    { [kind |-> "ClientError"],
      [kind |-> "None"],
      [kind |-> "ok", body |-> [ResponseMetadata |-> "meta"]],
      [kind |-> "ok", body |-> [ResponseMetadata |-> "meta",
                                PolicyStatus |-> [IsPublic |-> TRUE]]],
      [kind |-> "ok", body |-> [ResponseMetadata |-> "meta",
                                PolicyStatus |-> [IsPublic |-> FALSE]]] }

\* The key read from the response: public["PolicyStatus"] in the package,
\* public["PolicyStatus "] in the older file.
PolicyStatusKey(file) == IF file = "package" THEN "PolicyStatus" ELSE "PolicyStatus "

\* try: bucket["Public"] = public[key]["IsPublic"]
\* except (KeyError, ClientError): bucket["Public"] = False
PublicOf(file, answer) ==
    IF answer.kind = "ClientError"
       THEN FALSE
       ELSE LET public == RemoveMetadata(answer.body) IN
            IF PolicyStatusKey(file) \in DOMAIN public
               THEN public[PolicyStatusKey(file)].IsPublic
               ELSE FALSE

InitBkVars ==
    /\ bkFile = "none"
    /\ bkAnswers = <<>>
    /\ bkBuckets = <<>>
    /\ bkIdx = 0
    /\ bkPc = "off"

\* for bucket in s3_buckets: the public status of the next bucket.
\* remove_metadata(None) raises AttributeError, which no clause catches.
BkPublic ==
    /\ bkPc = "loop"
    /\ bkIdx < Len(bkBuckets)
    /\ LET i == bkIdx + 1 IN
       IF bkAnswers[i].kind = "None"
          THEN /\ bkPc' = "raised"
               /\ UNCHANGED <<bkBuckets, bkIdx>>
          ELSE /\ bkBuckets' =
                     [bkBuckets EXCEPT ![i] =
                         SetField(@, "Public", BoolValue(PublicOf(bkFile, bkAnswers[i])))]
               /\ bkIdx' = i
               /\ UNCHANGED bkPc
    /\ UNCHANGED <<bkFile, bkAnswers, bkRest>>

\* return ["s3buckets"], s3_buckets
BkReturn ==
    /\ bkPc = "loop"
    /\ bkIdx = Len(bkBuckets)
    /\ bkPc' = "returned"
    /\ UNCHANGED <<bkFile, bkAnswers, bkBuckets, bkIdx, bkRest>>

-----------------------------------------------------------------------------
(***************************************************************************)
(* Simulation.get_results: wait for the simulation, then fetch its data    *)
(***************************************************************************)

\* The largest number of progress requests of one call.
MaxPolls == 3

\* The progress values the server reports: failed, running, finished.
ProgressValues == {-1, 0, 99, 100}

\* A variant of the test that only stops at 100.
FinishedOnly(p) == p = 100

\* if self.progress < 0 or self.progress == 100:  # failed or finished
Finished(p) == p < 0 \/ p = 100

\* The progress requests sent so far.
Polls == {k \in DOMAIN simLog : simLog[k].req = "progress"}

InitSimVars ==
    /\ simStart = 0
    /\ progress = 0
    /\ simPc = "off"
    /\ simLog = <<>>

\* __wait_for_results: if self.progress == 100: return
SimWait ==
    /\ simPc = "wait"
    /\ simPc' = IF progress = 100 THEN "post" ELSE "update"
    /\ UNCHANGED <<simStart, progress, simLog, simRest>>

\* self.__update_progress() and the test that ends the loop
SimUpdate(p) ==
    /\ simPc = "update"
    /\ Cardinality(Polls) < MaxPolls
    /\ simLog' = Append(simLog, [req |-> "progress", answer |-> p])
    /\ progress' = p
    /\ simPc' = IF Finished(p) THEN "post" ELSE "sleep"
    /\ UNCHANGED <<simStart, simRest>>

\* The progress request fails: its error leaves get_results.
SimUpdateFails ==
    /\ simPc = "update"
    /\ Cardinality(Polls) < MaxPolls
    /\ simLog' = Append(simLog, [req |-> "progress_failed", answer |-> progress])
    /\ simPc' = "raised"
    /\ UNCHANGED <<simStart, progress, simRest>>

\* time.sleep(1)
SimSleep ==
    /\ simPc = "sleep"
    /\ simPc' = "update"
    /\ UNCHANGED <<simStart, progress, simLog, simRest>>

\* result = self.client._post("simulation/data", data)
SimPost ==
    /\ simPc = "post"
    /\ simLog' = Append(simLog, [req |-> "data", answer |-> progress])
    /\ simPc' = "done"
    /\ UNCHANGED <<simStart, progress, simRest>>

-----------------------------------------------------------------------------
(***************************************************************************)
(* Models._wait_for_model_validation: poll the listing of the project      *)
(***************************************************************************)

\* The largest number of models in a listing.
MaxListed == 2

\* mid, the model waited for
Mid == "m1"

\* The entries of a listing: a model id and a validity code.
DictModels == [mid : {"m1", "m2"}, valid : 0..3]

\* The listings the server can answer with.
Listings == UNION {[1..n -> DictModels] : n \in 0..MaxListed}

\* _get_is_valid(valid), with None, True and False as strings
GetIsValid(valid) ==
    CASE valid = 0 -> "None"
      [] valid = 1 -> "True"
      [] valid = 2 -> "False"
      [] OTHER -> "ValueError"

\* A variant that takes every validity for a result.
AnyValidity(valid) == TRUE

\* if _get_is_valid(dict_model["valid"]) is not None
IsValidated(valid) == GetIsValid(valid) # "None"

\* The entry at which the for loop stops: the first one with the id, 0 when
\* the loop runs to its end.
FirstMatch(listing, mid) ==
    LET hits == {i \in DOMAIN listing : listing[i].mid = mid} IN
    IF hits = {} THEN 0 ELSE CHOOSE i \in hits : \A j \in hits : i <= j

\* ModelInfo.from_dict(client, dict_model), as far as validity goes
ModelInfoOf(dict_model) ==
    [mid |-> dict_model.mid, is_valid |-> GetIsValid(dict_model.valid)]

InitMvVars ==
    /\ mvPc = "off"
    /\ mvList = <<>>
    /\ mvPolls = 0
    /\ mvEnd = NoEnd

\* One round of "while True": the listing is requested and searched.
MvPoll(listing) ==
    /\ mvPc = "poll"
    /\ mvPolls < MaxPolls
    /\ mvPolls' = mvPolls + 1
    /\ mvList' = listing
    /\ LET k == FirstMatch(listing, Mid) IN
       IF k = 0
          THEN mvPc' = "sleep" /\ UNCHANGED mvEnd
          ELSE IF GetIsValid(listing[k].valid) = "ValueError"
                  THEN /\ mvPc' = "raised"
                       /\ mvEnd' = [kind |-> "raise", error |-> "ValueError"]
                  ELSE IF IsValidated(listing[k].valid)
                          THEN /\ mvPc' = "returned"
                               /\ mvEnd' = [kind |-> "return",
                                            info |-> ModelInfoOf(listing[k])]
                          ELSE mvPc' = "sleep" /\ UNCHANGED mvEnd
    /\ UNCHANGED mvRest

\* The request of the listing fails: its error leaves the call.
MvPollFails ==
    /\ mvPc = "poll"
    /\ mvPolls < MaxPolls
    /\ mvPolls' = mvPolls + 1
    /\ mvPc' = "raised"
    /\ mvEnd' = [kind |-> "raise", error |-> "HTTPError"]
    /\ UNCHANGED <<mvList, mvRest>>

\* time.sleep(1)
MvSleep ==
    /\ mvPc = "sleep"
    /\ mvPc' = "poll"
    /\ UNCHANGED <<mvList, mvPolls, mvEnd, mvRest>>

-----------------------------------------------------------------------------
(***************************************************************************)
(* Client.save_model: lock, save, release                                  *)
(***************************************************************************)

\* The largest number of save_model calls of a client.
MaxSaves == 2

\* The model ids.
Mids == {"m1", "m2"}

\* A request of the current call, with its outcome: res.raise_for_status()
\* raises when the request failed.
SvRequest(req, ok) ==
    svLog' = Append(svLog, [req |-> req, mid |-> svMid, ok |-> ok, call |-> svCalls])

InitSvVars ==
    /\ svMid = "none"
    /\ svPc = "idle"
    /\ svCalls = 0
    /\ svLog = <<>>
    /\ svLocked = {}

\* save_model(pid, model): mid = model.model["mid"]
SvCall(mid) ==
    /\ svPc = "idle"
    /\ svCalls < MaxSaves
    /\ svCalls' = svCalls + 1
    /\ svMid' = mid
    /\ svPc' = "lock"
    /\ UNCHANGED <<svLog, svLocked, svRest>>

\* self.__lock_model(mid)
SvLock(ok) ==
    /\ svPc = "lock"
    /\ SvRequest("lock", ok)
    /\ svLocked' = IF ok THEN svLocked \cup {svMid} ELSE svLocked
    /\ svPc' = IF ok THEN "save" ELSE "idle"
    /\ UNCHANGED <<svMid, svCalls, svRest>>

\* self.__save_model(pid, model): its error leaves save_model
SvSave(ok) ==
    /\ svPc = "save"
    /\ SvRequest("save", ok)
    /\ svPc' = IF ok THEN "release" ELSE "idle"
    /\ UNCHANGED <<svMid, svCalls, svLocked, svRest>>

\* self.__release_model(mid)
SvRelease(ok) ==
    /\ svPc = "release"
    /\ SvRequest("release", ok)
    /\ svLocked' = IF ok THEN svLocked \ {svMid} ELSE svLocked
    /\ svPc' = "idle"
    /\ UNCHANGED <<svMid, svCalls, svRest>>

InitCallVars == InitBkVars /\ InitSimVars /\ InitMvVars /\ InitSvVars

InitTaskVars == InitListVars /\ InitCallVars

-----------------------------------------------------------------------------
(***************************************************************************)
(* Specifications                                                          *)
(***************************************************************************)

InitApi ==
    /\ apiPattern \in [1..MAX_RETRIES -> CallOutcomes]
    /\ apiPc = "loop"
    /\ retry = 0
    /\ apiLog = <<>>
    /\ apiResult = NoResult
    /\ InitCacheVars
    /\ InitSchedVars
    /\ InitImpVars
    /\ InitTaskVars

NextApi == ApiLoop \/ ApiCall \/ ApiSleep

SpecApi == InitApi /\ [][NextApi]_vars

InitCache ==
    /\ InitApiVars
    /\ InitCacheVars
    /\ InitSchedVars
    /\ InitImpVars
    /\ InitTaskVars

NextCache ==
    \/ \E c \in Callers : GcEnter(c)
    \/ \E c \in Callers : GcAcquire(c)
    \/ \E c \in Callers : GcCheck(c)
    \/ \E c \in Callers : GcCreate(c)
    \/ \E c \in Callers : GcReturn(c)

SpecCache == InitCache /\ [][NextCache]_vars

\* get_client with a session.client that can raise.
NextCacheRaise ==
    \/ \E c \in Callers : GcEnter(c)
    \/ \E c \in Callers : GcAcquire(c)
    \/ \E c \in Callers : GcCheck(c)
    \/ \E c \in Callers : GcCreate(c)
    \/ \E c \in Callers : GcCreateRaises(c)
    \/ \E c \in Callers : GcReturn(c)

SpecCacheRaise == InitCache /\ [][NextCacheRaise]_vars

\* Every caller that is inside or in front of the with block goes on.
FairCacheRaise ==
    \A c \in Callers :
        /\ WF_vars(GcCheck(c))
        /\ WF_vars(GcCreate(c) \/ GcCreateRaises(c))
        /\ WF_vars(GcReturn(c))
        /\ SF_vars(GcAcquire(c))

LiveCacheRaise == SpecCacheRaise /\ FairCacheRaise

\* The delay of the completion loop, in seconds, when one is configured.
DelaySecs == 1

InitSched ==
    /\ InitApiVars
    /\ InitCacheVars
    /\ \E n \in 1..MaxTasks :
          /\ tasks \in [1..n -> TaskPool]
          /\ threads \in 0..n
          /\ fut = [t \in 1..n |-> "new"]
    /\ delay \in {0, DelaySecs}
    /\ mPc = "submit"
    /\ cur = 0
    /\ cursor = <<>>
    /\ walked = 0
    /\ output = <<>>
    /\ reached = <<>>
    /\ merged = <<>>
    /\ slept = <<>>
    /\ atRaise = <<>>
    /\ schedEnd = NoEnd
    /\ InitImpVars
    /\ InitTaskVars

NextSched ==
    \/ Submit
    \/ \E t \in TaskIds : Start(t)
    \/ \E t \in TaskIds : Finish(t)
    \/ Iterate
    \/ Sleep
    \/ Result
    \/ Walk
    \/ Assign
    \/ Exit
    \/ Unwind

SpecSched == InitSched /\ [][NextSched]_vars

\* The account ids are interchangeable: the first access key resolves to
\* the first id, the second to the same id or to another.
InitImport ==
    /\ InitApiVars
    /\ InitCacheVars
    /\ InitSchedVars
    /\ \E n \in 0..MaxAccounts : config \in [1..n -> AccountPool]
    /\ identity \in {f \in [AccessKeys -> AccountIds] : f["AK1"] = "111"}
    /\ includeInspector \in BOOLEAN
    /\ iPc = "validate"
    /\ acct = 0
    /\ accountData = NoAccountData
    /\ validRegions = <<>>
    /\ regIdx = 0
    /\ outAccounts = <<>>
    /\ sessions = 0
    /\ sessionLog = <<>>
    /\ iTrace = <<>>
    /\ uses = <<>>
    /\ logged = <<>>
    /\ validated = FALSE
    /\ impEnd = NoEnd
    /\ InitTaskVars

NextImport ==
    \/ ValidateConfig
    \/ NextAccount
    \/ GetAccountData
    \/ DuplicateCheck
    \/ GlobalServices
    \/ GetValidRegions
    \/ NextRegion
    \/ GetRegionData
    \/ ValidateOutput
    \/ Return

SpecImport == InitImport /\ [][NextImport]_vars

InitChunk ==
    /\ InitApiVars
    /\ InitCacheVars
    /\ InitSchedVars
    /\ InitImpVars
    /\ \E len \in 0..MaxIds : fpItems \in [1..len -> Ids]
    /\ fpN \in 1..MaxChunk
    /\ fpKnown \in SUBSET Ids
    /\ fpPc = "while"
    /\ fpTail = fpItems
    /\ fpCalls = <<>>
    /\ fpPages = <<>>
    /\ fpEnd = NoEnd
    /\ InitEnVars
    /\ InitPgVars
    /\ InitInsVars
    /\ InitCallVars

NextChunk == FpLoop \/ FpChunk \/ FpReturn

SpecChunk == InitChunk /\ [][NextChunk]_vars

InitEnrich ==
    /\ InitApiVars
    /\ InitCacheVars
    /\ InitSchedVars
    /\ InitImpVars
    /\ InitFpVars
    /\ enTask \in EnrichTasks
    /\ enPc = "list"
    /\ enItems = <<>>
    /\ enIdx = 0
    /\ enLook = 0
    /\ enLog = <<>>
    /\ enEnd = NoEnd
    /\ InitPgVars
    /\ InitInsVars
    /\ InitCallVars

NextEnrich == EnList \/ EnNext \/ EnLookup

SpecEnrich == InitEnrich /\ [][NextEnrich]_vars

InitPaginate ==
    /\ InitApiVars
    /\ InitCacheVars
    /\ InitSchedVars
    /\ InitImpVars
    /\ InitFpVars
    /\ InitEnVars
    /\ \E n \in 0..MaxPages : pgPages \in [1..n -> PagePool]
    /\ pgPc = "paginate"
    /\ pgIdx = 0
    /\ pgData = <<>>
    /\ pgLog = <<>>
    /\ pgEnd = NoEnd
    /\ InitInsVars
    /\ InitCallVars

NextPaginate == PgPaginate \/ PgNext \/ PgPage \/ PgReturn

SpecPaginate == InitPaginate /\ [][NextPaginate]_vars

InitInspect ==
    /\ InitApiVars
    /\ InitCacheVars
    /\ InitSchedVars
    /\ InitImpVars
    /\ InitFpVars
    /\ InitEnVars
    /\ InitPgVars
    /\ \E n \in 0..MaxRuns :
          \E runs \in [1..n -> UNION {RunsWithArn(a) : a \in 1..n}] :
             /\ \A i \in 1..n : runs[i].arn = i
             /\ insRuns = runs
    /\ insPc = "list_runs"
    /\ insRunArn = NoRun
    /\ insCalls = <<>>
    /\ insEnd = NoEnd
    /\ InitCallVars

NextInspect ==
    \/ \E ok \in BOOLEAN : InsListRuns(ok)
    \/ \E ok \in BOOLEAN : InsDescribeRuns(ok)
    \/ \E ok \in BOOLEAN : InsPackages(ok)
    \/ \E ok \in BOOLEAN : InsListFindings(ok)
    \/ \E ok \in BOOLEAN : InsDescribeFindings(ok)

SpecInspect == InitInspect /\ [][NextInspect]_vars

InitBuckets ==
    /\ InitApiVars
    /\ InitCacheVars
    /\ InitSchedVars
    /\ InitImpVars
    /\ InitListVars
    /\ bkFile \in CollectorFiles
    /\ \E n \in 0..MaxBuckets :
          /\ bkAnswers \in [1..n -> PolicyStatusAnswers]
          /\ bkBuckets = [k \in 1..n |-> [Name |-> [kind |-> "name", n |-> k]]]
    /\ bkIdx = 0
    /\ bkPc = "loop"
    /\ InitSimVars
    /\ InitMvVars
    /\ InitSvVars

NextBuckets == BkPublic \/ BkReturn

SpecBuckets == InitBuckets /\ [][NextBuckets]_vars

InitSimulation ==
    /\ InitApiVars
    /\ InitCacheVars
    /\ InitSchedVars
    /\ InitImpVars
    /\ InitListVars
    /\ InitBkVars
    /\ simStart \in ProgressValues
    /\ progress = simStart
    /\ simPc = "wait"
    /\ simLog = <<>>
    /\ InitMvVars
    /\ InitSvVars

NextSimulation ==
    \/ SimWait
    \/ \E p \in ProgressValues : SimUpdate(p)
    \/ SimUpdateFails
    \/ SimSleep
    \/ SimPost

SpecSimulation == InitSimulation /\ [][NextSimulation]_vars

InitValidation ==
    /\ InitApiVars
    /\ InitCacheVars
    /\ InitSchedVars
    /\ InitImpVars
    /\ InitListVars
    /\ InitBkVars
    /\ InitSimVars
    /\ mvPc = "poll"
    /\ mvList = <<>>
    /\ mvPolls = 0
    /\ mvEnd = NoEnd
    /\ InitSvVars

NextValidation ==
    \/ \E listing \in Listings : MvPoll(listing)
    \/ MvPollFails
    \/ MvSleep

SpecValidation == InitValidation /\ [][NextValidation]_vars

InitSave ==
    /\ InitApiVars
    /\ InitCacheVars
    /\ InitSchedVars
    /\ InitImpVars
    /\ InitListVars
    /\ InitBkVars
    /\ InitSimVars
    /\ InitMvVars
    /\ InitSvVars

NextSave ==
    \/ \E mid \in Mids : SvCall(mid)
    \/ \E ok \in BOOLEAN : SvLock(ok)
    \/ \E ok \in BOOLEAN : SvSave(ok)
    \/ \E ok \in BOOLEAN : SvRelease(ok)

SpecSave == InitSave /\ [][NextSave]_vars

-----------------------------------------------------------------------------
(***************************************************************************)
(* Claims about api_call                                                   *)
(***************************************************************************)

\* The number of "call" events among the first i events of the log.
CallsUpTo(i) == Cardinality({j \in 1..i : apiLog[j].ev = "call"})

\* The attempt on which a run over pattern p stops: the first attempt that
\* is not throttled, or MAX_RETRIES when every attempt is throttled.
StoppingAttempt(p) ==
    IF \E j \in 1..MAX_RETRIES : p[j] # "Throttling"
       THEN CHOOSE j \in 1..MAX_RETRIES :
                /\ p[j] # "Throttling"
                /\ \A h \in 1..(j - 1) : p[h] = "Throttling"
       ELSE MAX_RETRIES

\* C4: the wrapped call is invoked at most 4 times; the event right before
\* attempt k (k >= 2) is a sleep of 2^(k-2) seconds (1, 2, 4); and the number
\* of attempts of a finished run is a function of the throttling pattern
\* alone, so a replay of the pattern repeats the attempts and the delays.
C4_AttemptsAndDelays ==
    /\ ApiCalls <= 4
    /\ \A i \in DOMAIN apiLog :
         (apiLog[i].ev = "call" /\ CallsUpTo(i) >= 2) =>
             /\ i > 1
             /\ apiLog[i - 1] = SleepEvent(2 ^ (CallsUpTo(i) - 2))
    /\ apiPc = "done" => ApiCalls = StoppingAttempt(apiPattern)

\* C4 witness: three throttled attempts, then a fourth that succeeds.
C4_Witness ==
    /\ apiPc = "done"
    /\ ApiCalls = 4
    /\ apiResult = [kind |-> "return", val |-> "value"]

AllThrottled == \A j \in 1..MAX_RETRIES : apiPattern[j] = "Throttling"

\* C5: when every one of the 4 attempts is throttled, api_call ends by
\* raising the Throttling error; it does not return normally.
C5_ExhaustionRaises ==
    (apiPc = "done" /\ AllThrottled) =>
        apiResult = [kind |-> "raise", val |-> "Throttling"]

\* C6: an attempt that fails with an error other than Throttling ends
\* api_call at once with that same error: it is the last attempt, the last
\* event of the log is that call (no sleep follows it), and the error
\* raised is the error of that attempt.
C6_OtherErrorImmediate ==
    \A j \in 1..ApiCalls :
        apiPattern[j] \in {"ClientError", "Exception"} =>
            /\ apiPc = "done"
            /\ ApiCalls = j
            /\ apiLog[Len(apiLog)] = CallEvent
            /\ apiResult = [kind |-> "raise", val |-> apiPattern[j]]

\* C6 witness: two throttled attempts, then a ClientError with another code.
C6_Witness ==
    /\ apiPc = "done"
    /\ ApiCalls = 3
    /\ apiResult = [kind |-> "raise", val |-> "ClientError"]

(***************************************************************************)
(* Claims about get_client                                                 *)
(***************************************************************************)

TaskPaths == {tasks[t].names : t \in TaskIds}

\* No two tasks return the same path and no path is the first segment of
\* another.
NonColliding ==
    \A t, u \in TaskIds : t # u => ~IsPrefix(tasks[t].names, tasks[u].names)

\* The non-empty proper prefixes of the task paths: the intermediate levels.
InnerPaths ==
    UNION {{SubSeq(p, 1, k) : k \in 1..(Len(p) - 1)} : p \in TaskPaths} \ TaskPaths

\* The tree that holds the value of every task at its path, written without
\* reference to the order in which the tasks completed.
TreeOfTasks ==
    [p \in TaskPaths \cup InnerPaths |->
        IF p \in TaskPaths
           THEN TaskValue(CHOOSE t \in TaskIds : tasks[t].names = p)
           ELSE EmptyDict]

\* C3: for N tasks with pairwise non-colliding paths, the tree returned by
\* execute_tasks holds exactly the N values, each at its path, and is the
\* same tree for every completion order.
C3_MergeOrderIndependent ==
    (mPc = "returned" /\ NonColliding) =>
        /\ schedEnd = [kind |-> "return", tree |-> TreeOfTasks]
        /\ Cardinality({p \in DOMAIN schedEnd.tree : schedEnd.tree[p].id # 0})
              = Len(tasks)

\* C3 witness: two tasks under the same first segment, returned after the
\* second task was merged before the first.
C3_Witness ==
    /\ mPc = "returned"
    /\ NonColliding
    /\ Len(tasks) = 2
    /\ tasks[1].names[1] = tasks[2].names[1]
    /\ merged = <<2, 1>>

\* C7: when future.result() is called on a failed task, that task is the
\* last one reached, its error is what execute_tasks ends with (no tree is
\* returned), the tasks reached before it are exactly the merged ones, and
\* the value of no other task is in the output.
C7_FirstErrorRaised ==
    \A i \in DOMAIN reached :
        fut[reached[i]] = "failed" =>
            /\ i = Len(reached)
            /\ mPc \in {"unwind", "raised"}
            /\ schedEnd = TaskError(reached[i])
            /\ merged = SubSeq(reached, 1, i - 1)
            /\ \A t \in TaskIds :
                 (\E p \in DOMAIN output : output[p].id = t) =>
                     \E j \in 1..(i - 1) : reached[j] = t

\* C7 witness: one task was merged, then the failed task was reached and
\* its error left execute_tasks.
C7_Witness ==
    /\ mPc = "raised"
    /\ Len(reached) = 2
    /\ schedEnd = TaskError(reached[2])
    /\ merged = <<reached[1]>>
    /\ output # <<>>

\* C8: the output tree is written only by steps of the thread that iterates
\* over the completed futures (a step of a worker thread, which always
\* changes a future, never changes the tree), each write belongs to the
\* merge of the future in hand, and another future is taken only when no
\* merge is in progress.
C8_SingleWriter ==
    [][ /\ output' # output =>
             /\ fut' = fut
             /\ mPc \in {"walk", "assign"}
             /\ cur' = cur
        /\ cur' # cur => mPc = "iterate"
      ]_vars

\* C8 witness: the merge of a two-segment path is between its two writes
\* while a worker thread is running another task.
C8_Witness ==
    /\ mPc = "assign"
    /\ cursor # <<>>
    /\ \E t \in TaskIds : fut[t] = "running"

\* C9: no future is ever cancelled, and when an error has left
\* execute_tasks every submitted task has run to completion or failure.
C9_SiblingsRun ==
    /\ \A t \in TaskIds : fut[t] # "cancelled"
    /\ mPc = "raised" => \A t \in TaskIds : fut[t] \in {"ok", "failed"}

\* C9 witness: with a pool of one thread, a task that was still queued when
\* the error of its sibling left the loop has run and returned.
C9_Witness ==
    /\ mPc = "raised"
    /\ threads = 1
    /\ schedEnd.error = "task"
    /\ \E t \in TaskIds : atRaise[t] = "pending" /\ fut[t] = "ok"

(***************************************************************************)
(* Claims about import_cli                                                 *)
(***************************************************************************)

\* The account id that entry i of the configuration resolves to.
IdOf(i) == identity[config[i].access_key]

\* Entry i resolves to the account id of an earlier entry.
IsDuplicate(i) == \E j \in 1..(i - 1) : IdOf(j) = IdOf(i)

\* The value of every task of list is in tree, at the task's path, as JSON.
HoldsAll(tree, list) ==
    \A k \in DOMAIN list :
        /\ list[k].names \in DOMAIN tree
        /\ tree[list[k].names] = [ResultValue(list[k]) EXCEPT !.json = TRUE]

RegionNamesOf(a) ==
    {a.regions[j][<<"region_name">>].str : j \in DOMAIN a.regions}

\* C1: import_cli ends by returning or by raising; a returned document
\* comes from a configuration that passed the input schema, passed the
\* output schema before it was returned and satisfies it as returned, and is
\* completely collected: every account holds the result of every global
\* task, every region fragment the result of every task registered for that
\* region, and every account every valid region of its entry.
C1_ValidatedAndComplete ==
    /\ iPc = "returned" <=> impEnd.kind = "return"
    /\ iPc = "raised" <=> impEnd.kind = "raise"
    /\ impEnd.kind = "return" =>
          /\ ValidConfig(config)
          /\ validated
          /\ ValidOutput(impEnd.doc)
          /\ \A i \in DOMAIN impEnd.doc.accounts :
                LET a == impEnd.doc.accounts[i] IN
                /\ HoldsAll(a.global, GlobalTasks)
                /\ \A j \in DOMAIN a.regions :
                      HoldsAll(a.regions[j],
                               RegionTaskList(a.regions[j][<<"region_name">>].str))
                /\ \E e \in DOMAIN config :
                      /\ IdOf(e) = a.account_id
                      /\ ~IsDuplicate(e)
                      /\ RegionNamesOf(a) =
                            {r \in AvailableRegions("ec2") :
                                \E k \in DOMAIN config[e].regions :
                                    config[e].regions[k] = r}

\* C1 witness: a document with two accounts is returned, one of them with
\* two regions collected from a list that also held an unknown and a
\* repeated name.
C1_Witness ==
    /\ impEnd.kind = "return"
    /\ Len(impEnd.doc.accounts) = 2
    /\ \E i \in DOMAIN impEnd.doc.accounts : Len(impEnd.doc.accounts[i].regions) = 2

\* C10: no global and no regional task set is run for an entry that
\* resolves to the account id of an earlier entry; the account ids of
\* output["accounts"] are pairwise distinct at every moment; and a returned
\* document holds the account id of every entry, also of those listed after
\* a duplicate, exactly once.
C10_DuplicateAccountSkipped ==
    /\ \A k \in DOMAIN iTrace :
         iTrace[k].step \in {"global", "region"} => ~IsDuplicate(iTrace[k].acct)
    /\ \A i, j \in DOMAIN outAccounts :
         i # j => outAccounts[i].account_id # outAccounts[j].account_id
    /\ impEnd.kind = "return" =>
         \A e \in DOMAIN config :
            Cardinality({i \in DOMAIN impEnd.doc.accounts :
                            impEnd.doc.accounts[i].account_id = IdOf(e)}) = 1

\* C10 witness: the second of three entries repeats the account of the
\* first, the third is another account; the duplicate was reported and the
\* returned document holds two accounts.
C10_Witness ==
    /\ impEnd.kind = "return"
    /\ Len(config) = 3
    /\ IdOf(2) = IdOf(1)
    /\ IdOf(3) # IdOf(1)
    /\ Len(impEnd.doc.accounts) = 2
    /\ \E k \in DOMAIN logged : logged[k] = Warning("Duplicate AWS account", IdOf(2))

\* The names of seq in the order of their first occurrence.
RECURSIVE FirstOccurrences(_)
FirstOccurrences(seq) ==
    IF seq = <<>>
       THEN <<>>
       ELSE LET k == Len(seq)
                front == FirstOccurrences(SubSeq(seq, 1, k - 1))
            IN IF \E j \in 1..(k - 1) : seq[j] = seq[k]
                  THEN front
                  ELSE Append(front, seq[k])

\* The region names of a list of region fragments, in order.
RegionNameSeq(regions) ==
    [j \in DOMAIN regions |-> regions[j][<<"region_name">>].str]

PairwiseDistinct(seq) == \A i, j \in DOMAIN seq : i # j => seq[i] # seq[j]

\* C11: the region names of an account's output are pairwise distinct, in
\* the account being collected and in every account already appended; the
\* regional task set runs at most once per account and region; while the
\* region loop runs, the regions collected are the first occurrences among
\* the names taken so far; and a returned account holds the first
\* occurrences of all valid names of its entry, those listed after a
\* repeated name included.
C11_DuplicateRegionSkipped ==
    /\ "regions" \in DOMAIN accountData =>
          PairwiseDistinct(RegionNameSeq(accountData.regions))
    /\ \A i \in DOMAIN outAccounts :
          PairwiseDistinct(RegionNameSeq(outAccounts[i].regions))
    /\ \A k, l \in DOMAIN iTrace :
          (k # l /\ iTrace[k].step = "region") => iTrace[k] # iTrace[l]
    /\ iPc = "region" =>
          RegionNameSeq(accountData.regions) =
             FirstOccurrences(SubSeq(validRegions, 1, regIdx))
    /\ impEnd.kind = "return" =>
          \A i \in DOMAIN impEnd.doc.accounts :
             LET a == impEnd.doc.accounts[i] IN
             \E e \in DOMAIN config :
                /\ IdOf(e) = a.account_id
                /\ ~IsDuplicate(e)
                /\ RegionNameSeq(a.regions) =
                      FirstOccurrences(ValidRegionsOf(config[e].regions))

\* C11 witness: an entry names eu-west-1 twice and us-east-1 after it; the
\* repetition was reported and the returned account holds the two regions.
C11_Witness ==
    /\ impEnd.kind = "return"
    /\ \E k \in DOMAIN logged : logged[k] = Warning("Duplicate AWS region", "eu-west-1")
    /\ \E i \in DOMAIN impEnd.doc.accounts :
          RegionNameSeq(impEnd.doc.accounts[i].regions) = <<"eu-west-1", "us-east-1">>

\* The names of the region list of entry e that the provider does not list.
UnknownNamesOf(e) ==
    SelectSeq(config[e].regions, LAMBDA r : r \notin AvailableRegions("ec2"))

\* The unknown names of the entries 1..n that are collected, in order.
RECURSIVE ExpectedUnknown(_)
ExpectedUnknown(n) ==
    IF n = 0
       THEN <<>>
       ELSE ExpectedUnknown(n - 1) \o
            (IF IsDuplicate(n) THEN <<>> ELSE UnknownNamesOf(n))

\* The names reported as not valid so far, in order.
ReportedUnknown ==
    LET reports == SelectSeq(logged, LAMBDA w : w.msg = "not a valid AWS region")
    IN [k \in DOMAIN reports |-> reports[k].what]

\* C12: the region loop of an account runs over names of the provider's
\* region list only, and every unknown name of the entry was reported
\* before it starts; a returned document reports every unknown name of
\* every collected entry, once per occurrence, and each of its accounts has
\* a region entry for exactly the known names of its configuration entry.
C12_UnknownRegionsDropped ==
    /\ iPc \in {"region", "region_data"} =>
          /\ \A k \in DOMAIN validRegions : validRegions[k] \in AvailableRegions("ec2")
          /\ \A r \in AvailableRegions("ec2") :
                (\E k \in DOMAIN config[acct].regions : config[acct].regions[k] = r)
                   => \E k \in DOMAIN validRegions : validRegions[k] = r
          /\ \A k \in DOMAIN UnknownNamesOf(acct) :
                \E l \in DOMAIN logged :
                   logged[l] = Warning("not a valid AWS region", UnknownNamesOf(acct)[k])
    /\ iTrace # <<>> /\ iTrace[Len(iTrace)].step = "region" =>
          iTrace[Len(iTrace)].region \in AvailableRegions("ec2")
    /\ impEnd.kind = "return" =>
          /\ ReportedUnknown = ExpectedUnknown(Len(config))
          /\ \A i \in DOMAIN impEnd.doc.accounts :
                LET a == impEnd.doc.accounts[i] IN
                \E e \in DOMAIN config :
                   /\ IdOf(e) = a.account_id
                   /\ ~IsDuplicate(e)
                   /\ \A r \in RegionNamesOf(a) : r \in AvailableRegions("ec2")
                   /\ \A k \in DOMAIN config[e].regions :
                         config[e].regions[k] \in RegionNamesOf(a)
                            <=> config[e].regions[k] \in AvailableRegions("ec2")

\* C12 witness: a returned document whose account comes from an entry that
\* names mars-1 between known names; mars-1 was reported and the account
\* has the two known regions.
C12_Witness ==
    /\ impEnd.kind = "return"
    /\ \E e \in DOMAIN config :
          /\ ~IsDuplicate(e)
          /\ UnknownNamesOf(e) = <<"mars-1">>
          /\ \E i \in DOMAIN impEnd.doc.accounts :
                /\ impEnd.doc.accounts[i].account_id = IdOf(e)
                /\ RegionNamesOf(impEnd.doc.accounts[i]) = {"eu-west-1", "us-east-1"}
    /\ ReportedUnknown # <<>>

\* Entry e has a region list, and the provider lists none of its names.
AllUnknown(e) ==
    /\ "regions" \in DOMAIN config[e]
    /\ \A k \in DOMAIN config[e].regions :
          config[e].regions[k] \notin AvailableRegions("ec2")

\* C13: when the region names of the entry being collected are all unknown,
\* the step that follows the account's global collection ends import_cli
\* with a ValueError, whatever was collected before; an invocation that
\* ended with an error has no document; and no document is ever returned
\* for a configuration with a collected entry whose names are all unknown.
C13_NoValidRegionFails ==
    /\ [][(iPc = "regions" /\ AllUnknown(acct)) =>
             /\ iPc' = "raised"
             /\ impEnd' = [kind |-> "raise", error |-> "ValueError"]]_vars
    /\ [](impEnd.kind = "raise" => "doc" \notin DOMAIN impEnd)
    /\ [](impEnd.kind = "return" =>
             \A e \in DOMAIN config : ~IsDuplicate(e) => ~AllUnknown(e))

\* C13 witness: the first account was collected and appended, the second
\* entry names mars-1 only, and the invocation ended with a ValueError
\* right after the report about mars-1.
C13_Witness ==
    /\ impEnd = [kind |-> "raise", error |-> "ValueError"]
    /\ acct = 2
    /\ AllUnknown(2)
    /\ Len(outAccounts) = 1
    /\ logged[Len(logged)] = Warning("not a valid AWS region", "mars-1")

\* The configuration breaks a constraint of CONFIG_SCHEMA: no account, an
\* empty key, an empty region list or an empty region name.
FailsInputSchema ==
    \/ config = <<>>
    \/ \E i \in DOMAIN config :
          \/ "access_key" \in DOMAIN config[i] /\ config[i].access_key = ""
          \/ "secret_key" \in DOMAIN config[i] /\ config[i].secret_key = ""
          \/ "regions" \in DOMAIN config[i] /\ config[i].regions = <<>>
          \/ "regions" \in DOMAIN config[i] /\
                \E k \in DOMAIN config[i].regions : config[i].regions[k] = ""

\* C14: nothing precedes input validation, and a configuration that fails
\* the input schema ends import_cli there: no session is opened, no
\* identity lookup, global task set or regional task set is run, nothing is
\* logged, and the invocation is either still at the validation or has
\* ended with the validation error.
C14_ValidationFirst ==
    /\ iPc = "validate" =>
          sessions = 0 /\ iTrace = <<>> /\ logged = <<>> /\ outAccounts = <<>>
    /\ FailsInputSchema =>
          /\ sessions = 0
          /\ iTrace = <<>>
          /\ logged = <<>>
          /\ acct = 0
          /\ iPc \in {"validate", "raised"}
          /\ iPc = "raised" =>
                impEnd = [kind |-> "raise", error |-> "ValidationError"]

\* C14 witness: the first entry is well formed and the second has an empty
\* access key; the invocation ended with the validation error.
C14_Witness ==
    /\ impEnd = [kind |-> "raise", error |-> "ValidationError"]
    /\ Len(config) = 2
    /\ config[1] = [access_key |-> "AK1", secret_key |-> "SK", regions |-> <<"eu-west-1">>]
    /\ config[2].access_key = ""
    /\ sessions = 0

\* Entry a has the three fields, with the values the account schema asks for.
WellFormedAccount(a) ==
    /\ DOMAIN a = {"access_key", "secret_key", "regions"}
    /\ a.access_key # ""
    /\ a.secret_key # ""
    /\ a.regions # <<>>
    /\ \A k \in DOMAIN a.regions : a.regions[k] # ""

\* The invocation got past the input validation.
Accepted ==
    /\ iPc # "validate"
    /\ impEnd # [kind |-> "raise", error |-> "ValidationError"]

\* C15: every configuration accepted by the input validation has, in each
\* account entry, a non-empty access_key, a non-empty secret_key and a
\* region list of at least one non-empty name; an entry that lacks one of
\* the three fields is rejected.
C15_AcceptedIsWellFormed ==
    Accepted => \A i \in DOMAIN config : WellFormedAccount(config[i])

\* The versions tried against the output schema: the constant and its two
\* neighbours.
VersionsTried == {PARSER_VERSION - 1, PARSER_VERSION, PARSER_VERSION + 1}

\* The document built by import_cli, with another parser_version.
WithVersion(v) == [OutputDoc EXCEPT !.parser_version = v]

\* C16: the document under construction and every returned document carry
\* parser_version = PARSER_VERSION; and the output validation, applied to
\* the finished document with its version replaced, accepts the constant
\* and rejects the smaller and the larger version.
C16_ExactParserVersion ==
    /\ OutputDoc.parser_version = PARSER_VERSION
    /\ impEnd.kind = "return" => impEnd.doc.parser_version = PARSER_VERSION
    /\ iPc \in {"validate_output", "return", "returned"} =>
          \A v \in VersionsTried :
             ValidOutput(WithVersion(v)) <=> v = PARSER_VERSION

\* C16 witness: a document was validated and returned, and the same
\* document with the next version fails the output validation.
C16_Witness ==
    /\ impEnd.kind = "return"
    /\ validated
    /\ ValidOutput(OutputDoc)
    /\ ~ValidOutput(WithVersion(PARSER_VERSION + 1))
    /\ ~ValidOutput(WithVersion(PARSER_VERSION - 1))

(***************************************************************************)
(* Claims about fake_paginate                                              *)
(***************************************************************************)

\* ceil(a / b) for b > 0
Ceil(a, b) == (a + b - 1) \div b

\* The concatenation of the lists of a list of lists.
RECURSIVE Flatten(_)
Flatten(lists) ==
    IF lists = <<>> THEN <<>> ELSE Head(lists) \o Flatten(Tail(lists))

Requests == [k \in DOMAIN fpCalls |-> fpCalls[k].request]

Responses == [k \in DOMAIN fpCalls |-> fpCalls[k].response]

\* C17: at every moment the chunks requested so far, followed by tail, are
\* ids, and no more than ceil(len(ids) / n) calls were made; when
\* fake_paginate returns it has made exactly ceil(len(ids) / n) calls, none
\* for an empty list, whose result is the empty list; chunk k is the slice
\* of ids from (k - 1) * n, every chunk but the last has n ids and the last
\* between 1 and n; and the result is the concatenation of the response
\* lists in call order.
C17_ChunkedFetch ==
    /\ Flatten(Requests) \o fpTail = fpItems
    /\ fpPc # "off" => Len(fpCalls) <= Ceil(Len(fpItems), fpN)
    /\ fpEnd.kind = "return" =>
          /\ Len(fpCalls) = Ceil(Len(fpItems), fpN)
          /\ fpItems = <<>> => fpCalls = <<>> /\ fpEnd.result = <<>>
          /\ \A k \in DOMAIN fpCalls :
                /\ fpCalls[k].request =
                      SubSeq(fpItems, (k - 1) * fpN + 1, Min(k * fpN, Len(fpItems)))
                /\ k < Len(fpCalls) => Len(fpCalls[k].request) = fpN
                /\ Len(fpCalls[k].request) \in 1..fpN
          /\ Flatten(Requests) = fpItems
          /\ fpEnd.result = Flatten(Responses)

\* C17 witness: four ids in chunks of three: two calls, the second with one
\* id, and a result that holds a description from each of the two calls.
C17_Witness ==
    /\ fpEnd.kind = "return"
    /\ Len(fpItems) = 4
    /\ fpN = 3
    /\ Len(fpCalls) = 2
    /\ Len(fpCalls[2].request) = 1
    /\ fpCalls[1].response # <<>>
    /\ fpCalls[2].response # <<>>
    /\ Len(fpEnd.result) < 4

(***************************************************************************)
(* Claims about the enrichment tasks                                       *)
(***************************************************************************)

\* The lookups that fill an optional field of an item.
IsEnrichment(field) ==
    field \in {"Encryption", "Public", "Policy", "Tags", "HasLoginProfile", "policy"}

\* The item shows that the sub-resource of field is absent: a bucket has no
\* such field, or Public = False; a user or repository has None.
HasAbsenceMarker(task, item, field) ==
    CASE task = "s3api_list_buckets" /\ field = "Public" ->
            item.Public = BoolValue(FALSE)
      [] task = "s3api_list_buckets" /\ field # "Public" -> field \notin DOMAIN item
      [] OTHER -> field \in DOMAIN item /\ item[field] = NoneValue

\* The item carries the sub-resource that the lookup returned.
HasEnrichment(item, field) ==
    /\ field \in DOMAIN item
    /\ item[field] \notin {NoneValue, BoolValue(FALSE)}

MissingThenFound(task, i, j) ==
    /\ enTask = task
    /\ enEnd.kind = "return"
    /\ \A k \in DOMAIN enLog :
          IsEnrichment(enLog[k].field) =>
             /\ enLog[k].item = i => enLog[k].outcome = "not_found"
             /\ enLog[k].item = j => enLog[k].outcome = "found"

C19_OtherErrorPropagates ==
    \A k \in DOMAIN enLog :
       (IsEnrichment(enLog[k].field) /\ enLog[k].outcome = "other_error") =>
          /\ k = Len(enLog)
          /\ enPc = "raised"
          /\ enEnd = [kind |-> "raise", error |-> "other_error"]

\* The region lists every service that task needs, and the include flag is
\* set if task is the inspector task.
Supported(task, region) ==
    /\ \A service \in task.services : region \in AvailableRegions(service)
    /\ task.id = "inspector_list_findings" => includeInspector

\* The regional tasks whose result is in a region fragment.
TasksIn(fragment) ==
    {k \in DOMAIN RegionTasks : RegionTasks[k].names \in DOMAIN fragment}

\* Fragment holds the result of exactly the tasks its region supports.
ExactlySupported(fragment) ==
    TasksIn(fragment) =
       {k \in DOMAIN RegionTasks :
           Supported(RegionTasks[k], fragment[<<"region_name">>].str)}

\* C20: the task set of a region holds a regional task if and only if the
\* region lists every service the task requires and, for the inspector
\* task, include_inspector is set; and every region fragment of the account
\* being collected, of the accounts appended and of a returned document
\* holds the result of exactly those tasks: leaving a task out does not
\* fail the region, and the supported tasks beside it are run.
C20_TaskSetBySupport ==
    /\ \A region \in AvailableRegions("ec2") :
          \A k \in DOMAIN RegionTasks :
             (\E l \in DOMAIN RegionTaskList(region) :
                 RegionTaskList(region)[l] = RegionTasks[k])
                <=> Supported(RegionTasks[k], region)
    /\ "regions" \in DOMAIN accountData =>
          \A j \in DOMAIN accountData.regions : ExactlySupported(accountData.regions[j])
    /\ \A i \in DOMAIN outAccounts :
          \A j \in DOMAIN outAccounts[i].regions :
             ExactlySupported(outAccounts[i].regions[j])
    /\ impEnd.kind = "return" =>
          \A i \in DOMAIN impEnd.doc.accounts :
             \A j \in DOMAIN impEnd.doc.accounts[i].regions :
                ExactlySupported(impEnd.doc.accounts[i].regions[j])

\* C20 witness: with include_inspector set, a returned account has the
\* region eu-west-1 with the rds results and no inspector result, and the
\* region us-east-1 with the inspector result and no rds result; both hold
\* the instances.
C20_Witness ==
    /\ impEnd.kind = "return"
    /\ includeInspector
    /\ \E i \in DOMAIN impEnd.doc.accounts :
          LET regions == impEnd.doc.accounts[i].regions IN
          /\ RegionNameSeq(regions) = <<"eu-west-1", "us-east-1">>
          /\ <<"rds", "Instances">> \in DOMAIN regions[1]
          /\ <<"inspector">> \notin DOMAIN regions[1]
          /\ <<"inspector">> \in DOMAIN regions[2]
          /\ <<"rds", "Instances">> \notin DOMAIN regions[2]
          /\ <<"instance">> \in DOMAIN regions[1] \cap DOMAIN regions[2]

\* C21: a lookup that was throttled on every attempt of api_call is the
\* last thing its task does: the task ends with an error, also when the
\* lookup sits in a try whose except clause tolerates provider errors, the
\* item it was made for gets no value and no absence marker for that field,
\* and a task that returns has no such lookup behind it.
C21_ExhaustedThrottleFails ==
    /\ \A k \in DOMAIN enLog :
          enLog[k].outcome = "exhausted" =>
             /\ k = Len(enLog)
             /\ enPc = "raised"
             /\ enEnd.kind = "raise"
             /\ enEnd.error \in {"AttributeError", "TypeError"}
             /\ enLog[k].field \notin DOMAIN enItems[enLog[k].item]
    /\ enEnd.kind = "return" =>
          \A k \in DOMAIN enLog : enLog[k].outcome # "exhausted"

\* C21 witness: the bucket task enriched its first bucket, then the
\* encryption lookup of the second bucket was throttled on every attempt,
\* and the task ended with the error raised on the None that api_call
\* returned.
C21_Witness ==
    /\ enTask = "s3api_list_buckets"
    /\ enEnd = [kind |-> "raise", error |-> "AttributeError"]
    /\ Len(enLog) = 5
    /\ enLog[5] = [item |-> 2, field |-> "Encryption", outcome |-> "exhausted"]
    /\ DOMAIN enItems[1] = {"Name", "Encryption", "Public", "Policy", "Tags"}
    /\ DOMAIN enItems[2] = {"Name"}

(***************************************************************************)
(* Claims about the delay                                                  *)
(***************************************************************************)

\* The tasks that a worker thread has begun to run: their remote calls are
\* under way or done.
Begun == {t \in TaskIds : fut[t] \in {"running", "ok", "failed"}}

\* C22: with a delay configured, a wait of that delay precedes the remote
\* calls of every task: no more tasks have begun to run than waits were
\* made.
C22_DelayBeforeEveryCall ==
    delay # 0 => Cardinality(Begun) <= Len(slept)

\* C28: without a delay execute_tasks never sleeps; with a delay every
\* sleep lasts that delay, and there is exactly one per future taken from
\* as_completed: it is made when the future is done and before
\* future.result() is called, so the sleeps made are the results read, plus
\* one while the result of the current future is about to be read.
C28_OneSleepPerTask ==
    /\ delay = 0 => slept = <<>>
    /\ \A k \in DOMAIN slept : slept[k] = delay
    /\ delay # 0 =>
          /\ Len(slept) = Len(reached) + (IF mPc = "result" THEN 1 ELSE 0)
          /\ mPc = "sleep" =>
                /\ fut[cur] \in {"ok", "failed"}
                /\ \A k \in DOMAIN reached : reached[k] # cur
    /\ \A k \in DOMAIN merged : \E l \in DOMAIN reached : reached[l] = merged[k]

\* C28 witness: two tasks with a delay: execute_tasks returned after two
\* sleeps and two merges.
C28_Witness ==
    /\ delay # 0
    /\ schedEnd.kind = "return"
    /\ Len(tasks) = 2
    /\ Len(slept) = 2
    /\ Len(merged) = 2

\* The seconds slept by api_call so far.
RECURSIVE SleptUpTo(_)
SleptUpTo(i) == IF i = 0 THEN 0 ELSE SleptUpTo(i - 1) + apiLog[i].secs

\* C30: when api_call has ended, every sleep of its log is followed by
\* another invocation of the wrapped call, and at no moment has it slept
\* more than 1 + 2 + 4 = 7 seconds.
C30_NoSleepAfterLastAttempt ==
    /\ apiPc = "done" =>
          \A i \in DOMAIN apiLog :
             apiLog[i].ev = "sleep" =>
                i < Len(apiLog) /\ apiLog[i + 1].ev = "call"
    /\ SleptUpTo(Len(apiLog)) <= BackoffDelay(0) + BackoffDelay(1) + BackoffDelay(2)

\* The names of the region list of entry e that the provider lists, each
\* once, in configuration order; none when the entry has no region list.
RegionsToCollect(e) ==
    IF "regions" \in DOMAIN config[e]
       THEN FirstOccurrences(SelectSeq(config[e].regions,
                                       LAMBDA r : r \in AvailableRegions("ec2")))
       ELSE <<>>

\* The collection steps of entry e, in the order the orchestrator is said
\* to take them.
StepsOf(e) ==
    <<Step("identity", e, "")>> \o
    (IF IsDuplicate(e)
        THEN <<>>
        ELSE <<Step("global", e, "")>> \o
             [k \in DOMAIN RegionsToCollect(e) |->
                 Step("region", e, RegionsToCollect(e)[k])])

RECURSIVE StepsUpTo(_)
StepsUpTo(n) == IF n = 0 THEN <<>> ELSE StepsUpTo(n - 1) \o StepsOf(n)

\* Entry e has the two keys the session is built from.
HasKeys(e) == {"access_key", "secret_key"} \subseteq DOMAIN config[e]

\* C23: the collection steps are taken account by account in configuration
\* order and, within an account, in the order identity, global task set
\* (once), regional task set once per valid non-duplicate region in
\* configuration order; the regions are validated right after the global
\* task set; and an account is in the accounts list only with its global
\* fragment and all of its regions, while the account being collected is
\* not yet in it.
C23_OrchestratorOrder ==
    /\ acct >= 1 =>
          IF HasKeys(acct)
             THEN /\ IsPrefix(iTrace, StepsUpTo(acct))
                  /\ IsPrefix(StepsUpTo(acct - 1), iTrace)
             ELSE iTrace = StepsUpTo(acct - 1)
    /\ impEnd.kind = "return" => iTrace = StepsUpTo(Len(config))
    /\ iPc = "regions" => iTrace[Len(iTrace)] = Step("global", acct, "")
    /\ iPc \in {"region", "region_data"} =>
          \E k \in DOMAIN iTrace : iTrace[k] = Step("global", acct, "")
    /\ \A i \in DOMAIN outAccounts :
          /\ "global" \in DOMAIN outAccounts[i]
          /\ \E e \in 1..acct :
                /\ IdOf(e) = outAccounts[i].account_id
                /\ ~IsDuplicate(e)
                /\ RegionNameSeq(outAccounts[i].regions) = RegionsToCollect(e)
                /\ e = acct => iPc \in {"account", "validate_output", "return",
                                        "returned", "raised"}
    /\ iPc \in {"global", "regions", "region_data"} =>
          ~AlreadyCollected(accountData.account_id)

\* C23 witness: two accounts were collected and returned, the second with
\* two regions: seven steps, the last three the global task set and the two
\* regions of the second account.
C23_Witness ==
    /\ impEnd.kind = "return"
    /\ Len(outAccounts) = 2
    /\ Len(iTrace) = 7
    /\ iTrace[5] = Step("global", 2, "")
    /\ iTrace[6] = Step("region", 2, "eu-west-1")
    /\ iTrace[7] = Step("region", 2, "us-east-1")

\* C24: every collection step runs on a session opened for its own
\* account: the unscoped one for the identity lookup and the global task
\* set, the one scoped to R for the regional task set of R; two steps that
\* share a session belong to the same account and region, and no two steps
\* share a client cache.
C24_SessionsNotShared ==
    /\ DOMAIN uses = DOMAIN iTrace
    /\ \A k \in DOMAIN uses :
          /\ uses[k].session \in DOMAIN sessionLog
          /\ sessionLog[uses[k].session].acct = iTrace[k].acct
          /\ sessionLog[uses[k].session].access_key = config[iTrace[k].acct].access_key
          /\ sessionLog[uses[k].session].region = iTrace[k].region
    /\ \A k, l \in DOMAIN uses :
          /\ uses[k].session = uses[l].session =>
                /\ iTrace[k].acct = iTrace[l].acct
                /\ iTrace[k].region = iTrace[l].region
          /\ uses[k].cache = uses[l].cache => k = l

\* C24 witness: a run over two accounts, the second with two regions, has
\* used five sessions and seven client caches in its seven steps.
C24_Witness ==
    /\ impEnd.kind = "return"
    /\ Len(uses) = 7
    /\ {uses[k].session : k \in DOMAIN uses} = 1..5
    /\ {uses[k].cache : k \in DOMAIN uses} = 1..7
    /\ {iTrace[k].acct : k \in DOMAIN iTrace} = {1, 2}

\* The number of times the client of service was constructed on session s.
Constructions(s, service) ==
    Cardinality({k \in DOMAIN uses :
                    uses[k].session = s /\ service \in uses[k].clients})

\* C25: a session has one client cache, so that over the whole invocation
\* the client of a service is constructed at most once per session.
C25_OneCachePerSession ==
    /\ \A k, l \in DOMAIN uses :
          uses[k].session = uses[l].session => uses[k].cache = uses[l].cache
    /\ \A s \in DOMAIN sessionLog :
          \A service \in {"sts", "iam", "s3", "ec2", "rds", "inspector"} :
             Constructions(s, service) <= 1

-----------------------------------------------------------------------------
(***************************************************************************)
(* Claims about paginate_cached                                            *)
(***************************************************************************)

\* The fetches of the given page made so far.
AttemptsOn(page) == Cardinality({k \in DOMAIN pgLog : pgLog[k].page = page})

\* C26: a Throttling failure raised while fetching a page is retried with
\* backoff like a throttled unpaginated call, so paginate_cached fails with
\* Throttling only after MAX_RETRIES fetches of that page.
C26_PageFetchRetried ==
    (pgEnd.kind = "raise" /\ pgEnd.error = "Throttling")
        => AttemptsOn(pgLog[Len(pgLog)].page) = MAX_RETRIES

\* The pages taken from the iterator that lack key.
PagesLackingKey == {i \in 1..pgIdx : ResultKey \notin DOMAIN pgPages[i]}

\* C27: paginate_cached returns a mapping with the single key resultKey,
\* whose value is the concatenation of the pages' resultKey lists in page
\* order; ResponseMetadata never appears in it, and a page that lacks
\* resultKey makes the call fail instead of returning a partial list.
C27_PagesConcatenated ==
    /\ pgPc = "returned" =>
          /\ DOMAIN pgEnd.result = {ResultKey}
          /\ "ResponseMetadata" \notin DOMAIN pgEnd.result
          /\ PagesLackingKey = {}
          /\ pgEnd.result[ResultKey] =
                Flatten([i \in DOMAIN pgPages |-> pgPages[i][ResultKey]])
    /\ (PagesLackingKey # {} /\ pgPc # "page") =>
          pgEnd = [kind |-> "raise", error |-> "KeyError"]

\* Two pages with different non-empty lists have been concatenated.
C27_Witness ==
    /\ pgPc = "returned"
    /\ Len(pgPages) >= 2
    /\ pgPages[1][ResultKey] # <<>>
    /\ pgPages[2][ResultKey] # <<>>
    /\ pgPages[1][ResultKey] # pgPages[2][ResultKey]
    /\ "ResponseMetadata" \in DOMAIN pgPages[1]

-----------------------------------------------------------------------------
(***************************************************************************)
(* Claims about inspector_list_findings                                    *)
(***************************************************************************)

\* The runs of the window that have a finding.
RunsWithFindings == {i \in DOMAIN insRuns : Count(insRuns[i]) > 0}

\* The operations called so far.
OpsCalled == {insCalls[k].op : k \in DOMAIN insCalls}

\* The runs for which the given operation was called.
RunsAsked(op) == {insCalls[k].runs : k \in {j \in DOMAIN insCalls : insCalls[j].op = op}}

\* C29: the task lists findings only for the run with the greatest
\* completedAt among the runs with a finding; when the window has no run, or
\* no run with a finding, the result is the empty list at ["inspector"] and
\* neither list-findings nor describe-findings is called.
C29_LatestRunWithFindings ==
    /\ RunsAsked("list_findings") \cup RunsAsked("describe_findings")
          \subseteq {<<insRunArn>>}
    /\ OpsCalled \cap {"list_findings", "describe_findings"} # {} =>
          /\ insRunArn \in RunsWithFindings
          /\ \A i \in RunsWithFindings :
                insRuns[i].completedAt <= insRuns[insRunArn].completedAt
    /\ RunsWithFindings = {} =>
          /\ OpsCalled \cap {"list_findings", "describe_findings"} = {}
          /\ insPc = "returned" =>
                insEnd = [kind |-> "return", path |-> <<"inspector">>,
                          items |-> <<>>]
    /\ (insPc = "returned" /\ RunsWithFindings # {}) =>
          /\ insEnd.path = <<"inspector">>
          /\ insEnd.items = FindingsOf(insRunArn)
          /\ \A k \in DOMAIN insEnd.items : insEnd.items[k].run = insRunArn

\* The findings of the later of two runs with findings were returned, the
\* later run being listed first and a run without findings being the latest.
C29_Witness ==
    /\ insPc = "returned"
    /\ Len(insRuns) = 3
    /\ Count(insRuns[1]) > 0
    /\ Count(insRuns[2]) > 0
    /\ Count(insRuns[3]) = 0
    /\ insRuns[2].completedAt < insRuns[1].completedAt
    /\ insRuns[1].completedAt <= insRuns[3].completedAt
    /\ insEnd.items # <<>>

-----------------------------------------------------------------------------
(***************************************************************************)
(* Claims about the end of execute_tasks                                   *)
(***************************************************************************)

\* execute_tasks has returned or raised.
Ended == mPc \in {"returned", "raised"}

\* C31: execute_tasks returns or raises only after every task it submitted
\* has finished running, also when a task failed; no task of the list is
\* queued or running when its caller goes on to the next task set.
C31_EndsAfterAllFinished ==
    Ended => \A t \in TaskIds : fut[t] \in {"ok", "failed"}

\* C31 witness: a task was still running when the error of its sibling left
\* the loop, and execute_tasks has raised.
C31_Witness ==
    /\ mPc = "raised"
    /\ \E t \in TaskIds : atRaise[t] = "running" /\ fut[t] \in {"ok", "failed"}

-----------------------------------------------------------------------------
(***************************************************************************)
(* Claims about the task sets of import_cli                                *)
(***************************************************************************)

\* The tasks of a list that need no service but ec2.
Ec2Tasks(list) == {k \in DOMAIN list : list[k].services = {"ec2"}}

\* C32: import_cli never calls execute_tasks with an empty task list: the
\* global set is not empty, and every region that passed region validation
\* keeps at least the ec2 tasks, so len(tasks) is at least 1.
C32_TaskListNeverEmpty ==
    /\ Len(GlobalTasks) >= 1
    /\ \A k \in DOMAIN validRegions :
          /\ Ec2Tasks(RegionTaskList(validRegions[k])) # {}
          /\ Len(RegionTaskList(validRegions[k])) >= 1

\* C32 witness: the tasks of a region that lacks every optional service are
\* about to run, and only the ec2 task is among them.
C32_Witness ==
    /\ iPc = "region_data"
    /\ ~includeInspector
    /\ validRegions[regIdx] \notin AvailableRegions("rds")
    /\ Len(RegionTaskList(validRegions[regIdx])) = 1

\* No two paths of the set are equal or one a prefix of the other.
PathsApart(paths) ==
    \A p, q \in paths : p # q => ~IsPrefix(p, q)

\* The paths of the tasks of a list.
PathsOf(list) == {list[k].names : k \in DOMAIN list}

\* The result of every task of list is in tree, at the task's path.
ResultsIn(tree, list) ==
    \A k \in DOMAIN list :
        /\ list[k].names \in DOMAIN tree
        /\ tree[list[k].names] = ResultValue(list[k])

\* The paths of the two task sets, which hold the paths of the tasks of the
\* model, do not collide within a set, and no regional path starts with the
\* key of the region name.
TaskPathsApart ==
    /\ PathsApart(GlobalResultPaths)
    /\ PathsApart(RegionResultPaths)
    /\ \A p \in RegionResultPaths : p[1] # "region_name"
    /\ PathsOf(GlobalTasks) \subseteq GlobalResultPaths
    /\ PathsOf(RegionTasks) \subseteq RegionResultPaths

\* C33: the result paths of the global set and of the regional set are
\* pairwise non-colliding and none starts with 'region_name', so the result
\* of every completed task is in the fragment and region_name, assigned
\* afterwards, overwrites no task result.
C33_PathsNonColliding ==
    /\ TaskPathsApart
    /\ "global" \in DOMAIN accountData => ResultsIn(accountData.global, GlobalTasks)
    /\ "regions" \in DOMAIN accountData =>
          \A j \in DOMAIN accountData.regions :
             LET fragment == accountData.regions[j] IN
             /\ <<"region_name">> \in DOMAIN fragment
             /\ fragment[<<"region_name">>].kind = "str"
             /\ ResultsIn(fragment, RegionTaskList(fragment[<<"region_name">>].str))

\* C33 witness: a region fragment holds the results of four tasks, two of
\* them below the same first segment, and its region name.
C33_Witness ==
    /\ "regions" \in DOMAIN accountData
    /\ \E j \in DOMAIN accountData.regions :
          LET fragment == accountData.regions[j] IN
          /\ Len(RegionTaskList(fragment[<<"region_name">>].str)) >= 3
          /\ <<"rds", "Instances">> \in DOMAIN fragment
          /\ <<"rds", "SubnetGroups">> \in DOMAIN fragment

-----------------------------------------------------------------------------
(***************************************************************************)
(* Claims about get_client when session.client raises                      *)
(***************************************************************************)

\* The invocations of session.client for name n that raised.
FailedFor(n) == {f \in ctorFailed : f[1] = n}

\* The lock is held only by a caller that is inside the with block.
LockHeldInside == lock # 0 => gcPc[lock] \in {"check", "create", "return"}

\* C34 (safety): when session.client raises inside get_client the lock is
\* released and the cache holds no entry for that name, only a client whose
\* construction succeeded is ever stored or returned, and a later call for
\* the name invokes session.client again: as long as the name is not in the
\* cache every invocation for it has raised, and at most one has not.
C34_RaiseLeavesCacheClean ==
    /\ LockHeldInside
    /\ \A n \in DOMAIN cache : cache[n] \notin ctorFailed
    /\ \A r \in gcRet : r.handle \notin ctorFailed
    /\ \A n \in ServiceNames :
          /\ n \notin DOMAIN cache => ctorCalls[n] = Cardinality(FailedFor(n))
          /\ n \in DOMAIN cache => ctorCalls[n] = Cardinality(FailedFor(n)) + 1

\* C34 witness: the construction of a client raised for one caller, and a
\* later caller of the same name built the client and received it.
C34_Witness ==
    \E n \in ServiceNames :
        /\ FailedFor(n) # {}
        /\ \E c \in Callers : gcPc[c] = "raised" /\ gcName[c] = n
        /\ \E r \in gcRet : r.name = n /\ r.handle = NewClient(n, 2)
        /\ lock = 0

\* A caller that waits for the lock gets it, also after a construction
\* raised inside the with block.
WaitersGoOn ==
    \A c \in Callers : (gcPc[c] = "acquire") ~> (gcPc[c] # "acquire")

-----------------------------------------------------------------------------
(***************************************************************************)
(* Claims about the public status of a bucket                              *)
(***************************************************************************)

\* The policy-status lookup succeeded and returned a policy status.
HasPolicyStatus(answer) ==
    answer.kind = "ok" /\ "PolicyStatus" \in DOMAIN answer.body

\* C35: in both collector files the Public field of a bucket equals the
\* IsPublic value of its policy status whenever the policy-status lookup
\* succeeds, and is False otherwise (the lookup failed or returned no
\* policy status).
C35_PublicIsPolicyStatus ==
    \A i \in 1..bkIdx :
        bkBuckets[i].Public =
            BoolValue(IF HasPolicyStatus(bkAnswers[i])
                         THEN bkAnswers[i].body.PolicyStatus.IsPublic
                         ELSE FALSE)

-----------------------------------------------------------------------------
(***************************************************************************)
(* Claims about the calls of the SDK client                                *)
(***************************************************************************)

\* The result data was requested.
DataRequested == \E k \in DOMAIN simLog : simLog[k].req = "data"

\* C36: get_results requests the result data only after the progress was
\* observed as 100 or negative: no progress request is sent when the stored
\* progress is 100, a progress reported within 0..99 is followed by another
\* progress request and never by the data request, and a reported progress
\* of 100 or below 0 ends the polling: the data request comes next.
C36_ResultsAfterCompletion ==
    /\ DataRequested => (progress = 100 \/ progress < 0)
    /\ simStart = 100 => Polls = {}
    /\ (simStart # 100 /\ DataRequested) => Polls # {}
    /\ \A k \in Polls :
          IF simLog[k].answer \in 0..99
             THEN IF k = Len(simLog)
                     THEN simPc \in {"sleep", "update"}
                     ELSE simLog[k + 1].req \in {"progress", "progress_failed"}
             ELSE IF k = Len(simLog)
                     THEN simPc = "post"
                     ELSE simLog[k + 1].req = "data"

\* C36 witness: two polls reported a running simulation, the third a failed
\* one, and the data was requested.
C36_Witness ==
    /\ simPc = "done"
    /\ Len(simLog) = 4
    /\ simLog[1].answer \in 0..99
    /\ simLog[2].answer \in 0..99
    /\ simLog[3].answer < 0

\* The model waited for is missing from the listing or has validity 0.
NotValidated(listing) ==
    \/ FirstMatch(listing, Mid) = 0
    \/ listing[FirstMatch(listing, Mid)].valid = 0

\* C37: _wait_for_model_validation returns only a ModelInfo of the model
\* waited for whose is_valid is True or False (validity 1 or 2), never None;
\* while the model is listed with validity 0 or is missing from the listing
\* it keeps polling: it has neither returned nor raised.
C37_ReturnsValidated ==
    /\ mvEnd.kind = "return" =>
          /\ mvEnd.info.mid = Mid
          /\ mvEnd.info.is_valid \in {"True", "False"}
          /\ mvList[FirstMatch(mvList, Mid)].valid \in {1, 2}
          /\ mvEnd.info.is_valid = "True" <=> mvList[FirstMatch(mvList, Mid)].valid = 1
    /\ (mvPolls > 0 /\ NotValidated(mvList)) =>
          \/ mvPc \in {"sleep", "poll"}
          \/ mvEnd = [kind |-> "raise", error |-> "HTTPError"]

\* C37 witness: two listings left the call polling, and it returned the
\* model as not valid from the third, where it is listed behind another.
C37_Witness ==
    /\ mvEnd.kind = "return"
    /\ mvPolls = 3
    /\ mvEnd.info.is_valid = "False"
    /\ Len(mvList) = 2
    /\ mvList[1].mid # Mid

\* The requests of save_model call c, in order.
RequestsOf(c) == SelectSeq(svLog, LAMBDA r : r.call = c)

\* The save_model calls that have ended.
EndedCalls == IF svPc = "idle" THEN 1..svCalls ELSE 1..(svCalls - 1)

\* C38: save_model issues lock, save, release in this order for the id of
\* the model, and every lock a call acquires is released by the same call,
\* also when the save request fails.
C38_LockAlwaysReleased ==
    \A c \in EndedCalls :
        LET reqs == RequestsOf(c) IN
        /\ [k \in DOMAIN reqs |-> reqs[k].req] \in
              {<<"lock">>, <<"lock", "save">>, <<"lock", "save", "release">>}
        /\ \A k \in DOMAIN reqs : reqs[k].mid = reqs[1].mid
        /\ reqs[1].ok => reqs[Len(reqs)].req = "release"

-----------------------------------------------------------------------------
(***************************************************************************)
(* Claims about the merge of the older collector                           *)
(***************************************************************************)

\* The output dictionary of the older merge after the results of the given
\* tasks, in that order; ok is FALSE once a merge raised.
RECURSIVE OldMergeAll(_)
OldMergeAll(order) ==
    IF order = <<>>
       THEN [ok |-> TRUE, tree |-> <<>>]
       ELSE LET k == Len(order)
                before == OldMergeAll(SubSeq(order, 1, k - 1))
            IN IF before.ok
                  THEN OldMerge(before.tree, tasks[order[k]].names, TaskValue(order[k]))
                  ELSE before

\* No merge of execute_tasks is in progress.
BetweenMerges == mPc \notin {"walk", "assign"}

\* C39: for task results whose paths have one or two segments, in every
\* completion order, the merge of the older collector and the merge of
\* execute_tasks build the same mapping from the same sequence of results,
\* and one raises exactly when the other does.
C39_MergesAgree ==
    LET old == OldMergeAll(merged) IN
    /\ \A t \in TaskIds : Len(tasks[t].names) \in {1, 2}
    /\ old.ok
    /\ BetweenMerges => output = old.tree
    /\ schedEnd = MergeError =>
          ~OldMerge(old.tree, tasks[cur].names, TaskValue(cur)).ok

\* C39 witness: the results of two tasks with two-segment paths below the
\* same first segment were merged and the mapping was returned.
C39_Witness ==
    /\ mPc = "returned"
    /\ Len(merged) = 2
    /\ Len(tasks[1].names) = 2
    /\ Len(tasks[2].names) = 2
    /\ tasks[1].names # tasks[2].names
    /\ tasks[1].names[1] = tasks[2].names[1]

====
